---- MODULE Spec2Model ----
(***************************************************************************)
(* A model of the DHCP server's address pool (src/dhcp/pool.go): the lease *)
(* table, the MAC index, the conflict set and the clock that expiry reads. *)
(* Every public method of IPPool takes pool.mutex for its whole body, so   *)
(* each method is one atomic action.                                       *)
(*                                                                         *)
(* Around the pool: the packet handlers of the engine (src/dhcp/server.go),*)
(* hot reload (src/main.go) with the API route that deletes a reservation, *)
(* and gateway selection (src/gateway/checker.go). Each part has its own   *)
(* specification; the variables of the other parts stay at rest in it.     *)
(*   Spec         the pool alone                                           *)
(*   ServerSpec   the packet handlers over the pool                        *)
(*   ReloadSpec   reload, the API and DISCOVER traffic                     *)
(*   GatewaySpec  probe rounds and gateway selection                       *)
(* Further parts: the gateway and reservation routes of the API (package   *)
(* api), the probe loop of the health checker, the history ring, saving    *)
(* and loading the configuration (package config), the network scanner,    *)
(* and the packet handlers taken statement by statement.                   *)
(*   GatewayApiSpec  the gateway routes, probe rounds and selection        *)
(*   CheckerSpec     Start and Stop of the health checker                  *)
(*   HistorySpec     addHistory on a history near its limit                *)
(*   BindingApiSpec  concurrent requests to the reservation routes         *)
(*   RoundTripSpec   SaveConfig and LoadConfig                             *)
(*   ScannerSpec     Start, Stop, the scan loop and status queries         *)
(*   OfferSpec       DISCOVER, REQUEST, RELEASE and lease expiry           *)
(*   StepSpec        the steps of a packet handler                         *)
(*   RestartSpec     the restart route and reload                          *)
(*   LiveReloadSpec  reload with the live configuration object             *)
(*   ProbeLockSpec   a probe round and hc.statusLock                       *)
(*   RaceSpec        the handlers, the sweeper and pool.mutex              *)
(*   RouterSpec      the stored gateway and the router option              *)
(*   WalkSpec        the linear scan of the address range                  *)
(*   SweepSpec       the pool before and after a cleanup                   *)
(*   EngineSpec      Start and Stop of the engines over reloads            *)
(*   EngineFairSpec  EngineSpec with fair goroutines                       *)
(***************************************************************************)
EXTENDS Integers, Sequences, FiniteSets, TLC

VARIABLES
    config,       \* pool.config.Bindings: the reservations the pool was built from
    leases,       \* pool.leases: IP -> lease (a Go map: a function on the keys present)
    macToIP,      \* pool.macToIP: MAC -> IP
    conflictIPs,  \* pool.conflictIPs: IP -> time of the mark
    now,          \* time.Now(), in hours
    ret,          \* what the last call returned to its caller
    \* the engine (dhcp.Server)
    allowAnyServerIP, \* config.Server.AllowAnyServerIP
    history,      \* s.history
    packet,       \* the last packet handleDHCPPacket was given
    response,     \* what handleDHCPPacket sent for the last packet
    packets,      \* how many packets the engine has handled
    \* hot reload (main.go) and the API
    apiConfig,    \* the reservations of the live configuration object
    calls,        \* each reload call: where it stands, its argument, its result
    restartHolder,\* who holds restartMutex
    isRestarting, \* isRestarting
    newLeases,    \* newServer.pool.leases
    newMacToIP,   \* newServer.pool.macToIP
    \* gateway selection (gateway.HealthChecker)
    gateways,     \* hc.config.Gateways
    status,       \* hc.status
    probed,       \* whether checkAllGateways has run
    picked,       \* what the last GetHealthyGateway returned
    apiStatus,    \* the HTTP status of the last gateway request of the API
    \* the probe loop (HealthChecker.Start)
    hcLoop,       \* where the goroutine running Start stands
    cancelled,    \* hc.ctx is done
    tick,         \* ticker.C holds a tick
    \* the reservation routes of the API
    apiBindings,  \* api.config.Bindings, with aliases and gateways
    file,         \* the reservations in the configuration file
    requests,     \* each request in flight: its body, where it stands, its answer
    reloads,      \* how many goroutines calling reloadCallback were started
    \* the configuration and its file (package config)
    memConfig,    \* the *config.Config in memory: gateways, reservations, devices
    yamlFile,     \* the configuration file, and the model it was written from
    loadedConfig, \* what the last LoadConfig returned
    \* the network scanner (dhcp.NetworkScanner)
    scanMutex,    \* who holds scanner.scanMutex
    isRunning,    \* scanner.status.IsRunning
    stopChan,     \* scanner.stopChan: open or closed
    scanPc,       \* where the two goroutines Start starts stand
    stopPc,       \* where the caller of Stop stands
    queryPc,      \* where the caller of GetStatus stands
    scanTick,     \* the ticker of scanLoop holds a tick
    \* a packet handler of the engine taken step by step
    handler,       \* the steps the handler in flight has left, and its lease
    \* a probe round of the health checker taken step by step
    statusLock,   \* who holds hc.statusLock
    round,        \* checkAllGateways: where it stands, the probes in flight
    asker,         \* a caller of IsGatewayHealthy: where it stands, its answer
    \* the pool lock and the goroutines that touch the fields of a lease
    poolMutex,    \* who holds pool.mutex exclusively
    racers,        \* each of these goroutines: where it stands, its lease
    \* the gateway a handler answers with
    leaseGatewayIP, \* lease.GatewayIP of the leases that have one: IP -> gateway IP
    reply,         \* a handler building its response: where it stands, the router option
    \* the linear scan of the address range
    walk,          \* the loop of findAvailableIP or GetAvailableIPs: range, counter, yield
    \* the last cleanup
    swept,         \* the pool and the clock as the cleanup that has just run found them
    \* the engines of the process and their goroutines (main.go, Server.Start)
    engines,      \* each dhcp.Server: its Start, its tasks, s.server, its listener
    globalServer, \* globalServer: the current engine; 0 once the process has exited
    handledBy     \* the engine whose handleDHCPPacket took the last packet; 0 if none

poolVars == <<config, leases, macToIP, conflictIPs, now, ret>>
serverVars == <<allowAnyServerIP, history, packet, response, packets>>
reloadVars == <<apiConfig, calls, restartHolder, isRestarting, newLeases, newMacToIP>>
gatewayVars == <<gateways, status, probed, picked, apiStatus>>
checkerVars == <<hcLoop, cancelled, tick>>
bindingVars == <<apiBindings, file, requests, reloads>>
configVars == <<memConfig, yamlFile, loadedConfig>>
scannerVars == <<scanMutex, isRunning, stopChan, scanPc, stopPc, queryPc, scanTick>>
\* The parts the pool, the engine, reload and gateway selection leave alone.
stepVars == <<handler>>
lockVars == <<statusLock, round, asker>>
raceVars == <<poolMutex, racers>>
routerVars == <<leaseGatewayIP, reply>>
walkVars == <<walk>>
sweepVars == <<swept>>
engineVars == <<engines, globalServer, handledBy>>
otherVars == <<checkerVars, bindingVars, configVars, scannerVars, stepVars,
               lockVars, raceVars, routerVars, walkVars, sweepVars, engineVars>>

vars == <<poolVars, serverVars, reloadVars, gatewayVars, checkerVars, bindingVars,
          configVars, scannerVars, stepVars, lockVars, raceVars, routerVars,
          walkVars, sweepVars, engineVars>>

-----------------------------------------------------------------------------
(* Bounds and configuration values *)

\* The clock stops here.
MaxTime == 2
\* A configuration holds at most this many reservations.
MaxBindings == 2

\* cfg.Network.StartIP and cfg.Network.EndIP as 32-bit numbers.
startIP == 1
endIP == 3
\* cfg.Server.LeaseTime, in hours.
leaseTime == 1
\* cleanupConflictIPs: time.Now().Add(-time.Hour).
ConflictTTL == 1

\* A nil net.IP, and 0.0.0.0 (IsUnspecified).
NilIP == -1
UnspecifiedIP == 0
\* An address outside [startIP, endIP].
OutsideIP == endIP + 1

PoolRange == startIP..endIP
Addresses == PoolRange \cup {OutsideIP}
\* The addresses a scan or a DECLINE marks as conflicting.
ConflictInputs == {startIP, startIP + 1}

\* Texts a caller can pass as a MAC: canonical, upper case, and unparsable.
MACs == {"aa:01", "aa:02"}
MACTexts == MACs \cup {"AA:01", "zz"}
BadMAC == "invalid"
\* Texts a reservation can carry as its IP: an address, or an unparsable text.
BadIPText == -2
\* An empty text where a request or a reservation carries an address.
EmptyIPText == -3
Hostnames == {"h1"}

-----------------------------------------------------------------------------
(* Go maps *)

MapDelete(m, k) == [x \in DOMAIN m \ {k} |-> m[x]]

MapPut(m, k, v) == [x \in DOMAIN m \cup {k} |-> IF x = k THEN v ELSE m[x]]

EmptyMap == [x \in {} |-> 0]

-----------------------------------------------------------------------------
(* Parsing *)

\* net.ParseMAC followed by String(): the canonical lower-case form.
ParseMAC(text) ==
    CASE text \in MACs -> text
      [] text = "AA:01" -> "aa:01"
      [] OTHER -> BadMAC

\* net.ParseIP: nil for a text that is no address.
ParseIP(text) == IF text \in {BadIPText, EmptyIPText} THEN NilIP ELSE text

-----------------------------------------------------------------------------
(* Leases *)

IsExpired(lease, t) ==
    IF lease.isStatic THEN FALSE ELSE t > lease.startTime + lease.leaseTime

\* What a call hands back: the operation, the MAC it was called for, whether it
\* succeeded, the address of the lease it returned or removed, and the branch
\* that produced it (the branch RequestIP logs). Calls that return nothing
\* leave NoRet.
NoRet == [op |-> "none", mac |-> BadMAC, ok |-> TRUE, ip |-> NilIP, path |-> "none"]

Returned(op, mac, ip, path) ==
    [op |-> op, mac |-> mac, ok |-> TRUE, ip |-> ip, path |-> path]

Failed(op, mac) ==
    [op |-> op, mac |-> mac, ok |-> FALSE, ip |-> NilIP, path |-> "none"]

-----------------------------------------------------------------------------
(* Construction *)

\* A reservation of the configuration (config.MACBinding).
BindingMACs == {"aa:01", "aa:02", "zz"}
BindingIPs == {startIP, OutsideIP, BadIPText}
Bindings == [mac : BindingMACs, ip : BindingIPs, hostname : {"h0"}]

Configs == UNION {[1..n -> Bindings] : n \in 0..MaxBindings}

StaticLease(binding, t) ==
    [ip |-> ParseIP(binding.ip), mac |-> ParseMAC(binding.mac),
     hostname |-> binding.hostname, startTime |-> t, leaseTime |-> 0,
     isStatic |-> TRUE]

\* The loop of initStaticBindings from reservation i on: the maps it leaves,
\* or an error at the first reservation whose IP or MAC does not parse.
RECURSIVE initFrom(_, _, _, _)
initFrom(bindings, i, ls, idx) ==
    IF i > Len(bindings) THEN [ok |-> TRUE, leases |-> ls, macToIP |-> idx]
    ELSE LET binding == bindings[i] IN
         IF ParseIP(binding.ip) = NilIP
            THEN [ok |-> FALSE, leases |-> ls, macToIP |-> idx]
         ELSE IF ParseMAC(binding.mac) = BadMAC
            THEN [ok |-> FALSE, leases |-> ls, macToIP |-> idx]
         ELSE initFrom(bindings, i + 1,
                       MapPut(ls, ParseIP(binding.ip), StaticLease(binding, 0)),
                       MapPut(idx, ParseMAC(binding.mac), ParseIP(binding.ip)))

initStaticBindings(bindings) == initFrom(bindings, 1, EmptyMap, EmptyMap)

\* NewIPPool: the pool, or an error and no pool.
NewIPPool(bindings) ==
    LET r == initStaticBindings(bindings) IN
    IF r.ok THEN r
    ELSE [ok |-> FALSE, leases |-> EmptyMap, macToIP |-> EmptyMap]

\* Whether NewIPPool returned a pool for this configuration.
Built == NewIPPool(config).ok

\* A nil server identifier (the option is absent), the address getServerIP
\* returns, and another server's address.
NilServerIP == "none"
OurServerIP == "ours"
ForeignServerIP == "foreign"
ServerIPs == {NilServerIP, OurServerIP, ForeignServerIP}

\* No packet yet, and no response: handleDHCPPacket sends nothing.
NoPacket == [type |-> "NONE", mac |-> BadMAC, requestedIP |-> NilIP,
             clientIP |-> UnspecifiedIP, serverIP |-> NilServerIP]
NoResponse == [type |-> "NONE", ip |-> NilIP]

\* The goroutines that call reloadConfig, each once, and one that has not
\* called yet.
Callers == {"r1", "r2"}
NoCall == [pc |-> "idle", cfg |-> <<>>, live |-> FALSE, deleted |-> BadMAC,
           result |-> "none"]
Nobody == "nobody"

\* A nil *config.Gateway.
NilGateway == [name |-> "", ip |-> NilIP, isDefault |-> FALSE]
\* No selection yet. A selection records the preferred name, the gateway
\* returned, and whether GetHealthyGateway panicked instead of returning.
NoPick == [preferred |-> "", gateway |-> NilGateway, panic |-> FALSE]

\* The engine, reload and gateway selection at rest: the values their
\* variables keep in a specification that leaves them out.
ServerAtRest ==
    /\ allowAnyServerIP = FALSE
    /\ history = <<>>
    /\ packet = NoPacket
    /\ response = NoResponse
    /\ packets = 0

ReloadAtRest ==
    /\ apiConfig = <<>>
    /\ calls = [c \in Callers |-> NoCall]
    /\ restartHolder = Nobody
    /\ isRestarting = FALSE
    /\ newLeases = EmptyMap
    /\ newMacToIP = EmptyMap

GatewayAtRest ==
    /\ gateways = <<>>
    /\ status = EmptyMap
    /\ probed = FALSE
    /\ picked = NoPick
    /\ apiStatus = 0

\* The HTTP clients of the reservation routes, each sending one request,
\* and a client that has sent none.
Clients == {"q1", "q2"}
NoRequest == [pc |-> "idle", kind |-> "none", oldAlias |-> "", alias |-> "",
              mac |-> "", ip |-> EmptyIPText, index |-> 0, seen |-> <<>>,
              status |-> 0]

BindingAtRest ==
    /\ apiBindings = <<>>
    /\ file = <<>>
    /\ requests = [q \in Clients |-> NoRequest]
    /\ reloads = 0

\* A configuration with nothing in it, no file written and nothing loaded.
EmptyConfig == [gateways |-> <<>>, bindings |-> <<>>, devices |-> <<>>]
NoFile == [written |-> FALSE, data |-> EmptyConfig, model |-> EmptyConfig]
NoLoad == [state |-> "none", config |-> EmptyConfig, model |-> EmptyConfig]

ConfigAtRest ==
    /\ memConfig = EmptyConfig
    /\ yamlFile = NoFile
    /\ loadedConfig = NoLoad

\* Start has not been called and Stop neither.
CheckerAtRest ==
    /\ hcLoop = "idle"
    /\ cancelled = FALSE
    /\ tick = FALSE

\* The goroutines of the scanner: the scan Start runs at once, and scanLoop.
Scans == {"first", "loop"}

\* NewNetworkScanner: nothing runs.
ScannerAtRest ==
    /\ scanMutex = "free"
    /\ isRunning = FALSE
    /\ stopChan = "open"
    /\ scanPc = [g \in Scans |-> "none"]
    /\ stopPc = "idle"
    /\ queryPc = "idle"
    /\ scanTick = FALSE

\* No packet handler in flight.
NoHandler == [todo |-> <<>>, ip |-> NilIP]

StepAtRest == handler = NoHandler

\* No probe round and no caller of IsGatewayHealthy.
NoRound == [pc |-> "idle", inflight |-> {}, results |-> [x \in {} |-> FALSE]]
NoAsk == [pc |-> "idle", name |-> "", answer |-> "none"]

LockAtRest ==
    /\ statusLock = "free"
    /\ round = NoRound
    /\ asker = NoAsk

\* The goroutines that touch lease fields: a DISCOVER handler, a REQUEST
\* handler and the cleanup sweeper.
Racers == {"discover", "request", "sweeper"}
NoRacer == [pc |-> "idle", mac |-> BadMAC, ip |-> NilIP]

RaceAtRest ==
    /\ poolMutex = "free"
    /\ racers = [g \in Racers |-> NoRacer]

\* No handler is building a response.
NoReply == [pc |-> "idle", mac |-> BadMAC, ip |-> NilIP, router |-> NilIP]

RouterAtRest ==
    /\ leaseGatewayIP = EmptyMap
    /\ reply = NoReply

\* No scan of the range.
NoWalk == [mode |-> "none", start |-> 0, end |-> 0, free |-> {}, i |-> 0,
           n |-> 0, out |-> <<>>, done |-> TRUE]

WalkAtRest == walk = NoWalk

\* No cleanup has just run.
NoSweep == [ran |-> FALSE, leases |-> <<>>, macToIP |-> <<>>,
            conflictIPs |-> <<>>, now |-> 0]

SweepAtRest == swept = NoSweep

\* An engine that has not been constructed: no goroutine, no listener.
NoEngine == [pc |-> "none", hc |-> "none", sweeper |-> "none",
             cancelled |-> FALSE, stopped |-> FALSE, server |-> FALSE,
             listener |-> FALSE]

\* The engines a run of the process constructs, at most.
MaxEngines == 3
Engines == 1..MaxEngines

EngineAtRest ==
    /\ engines = [e \in Engines |-> NoEngine]
    /\ globalServer = 0
    /\ handledBy = 0

OthersAtRest ==
    CheckerAtRest /\ BindingAtRest /\ ConfigAtRest /\ ScannerAtRest /\ StepAtRest
    /\ LockAtRest /\ RaceAtRest /\ RouterAtRest /\ WalkAtRest /\ SweepAtRest
    /\ EngineAtRest

Init ==
    /\ ServerAtRest /\ ReloadAtRest /\ GatewayAtRest /\ OthersAtRest
    /\ config \in Configs
    /\ leases = NewIPPool(config).leases
    /\ macToIP = NewIPPool(config).macToIP
    /\ conflictIPs = EmptyMap
    /\ now = 0
    /\ ret = IF NewIPPool(config).ok THEN Returned("construct", BadMAC, NilIP, "none")
                                  ELSE Failed("construct", BadMAC)

-----------------------------------------------------------------------------
(* Availability *)

\* A variant of isIPAvailable that forgets the conflict set.
isIPAvailable_IgnoringConflicts(ls, ip) ==
    IF ip \notin DOMAIN ls THEN TRUE
    ELSE IF ls[ip].isStatic THEN FALSE
    ELSE IsExpired(ls[ip], now)

isIPAvailable(ls, ip) ==
    IF ip \in DOMAIN conflictIPs THEN FALSE
    ELSE IF ip \notin DOMAIN ls THEN TRUE
    ELSE IF ls[ip].isStatic THEN FALSE
    ELSE IsExpired(ls[ip], now)

isIPInRange(ip) == ip >= startIP /\ ip <= endIP

\* The scan of findAvailableIP from address i on; NilIP when it finds none.
RECURSIVE scanFrom(_, _)
scanFrom(ls, i) ==
    IF i > endIP THEN NilIP
    ELSE IF isIPAvailable(ls, i) THEN i
    ELSE scanFrom(ls, i + 1)

findAvailableIP(ls) == IF startIP > endIP THEN NilIP ELSE scanFrom(ls, startIP)

DynamicLease(ip, mac, hostname) ==
    [ip |-> ip, mac |-> mac, hostname |-> hostname, startTime |-> now,
     leaseTime |-> leaseTime, isStatic |-> FALSE]

\* allocateIP on the maps ls and idx: the new maps and what RequestIP returns.
allocateIP(ls, idx, ip, mac, hostname) ==
    /\ leases' = MapPut(ls, ip, DynamicLease(ip, mac, hostname))
    /\ macToIP' = MapPut(idx, mac, ip)
    /\ ret' = Returned("request", mac, ip, "new")

-----------------------------------------------------------------------------
(* Operations *)

\* The tail of RequestIP once the MAC's old entry is settled: the requested
\* address when it is usable, else the first available one, else pool full.
allocateNew(ls, idx, mac, requestedIP, hostname) ==
    IF /\ requestedIP # NilIP
       /\ requestedIP # UnspecifiedIP
       /\ isIPInRange(requestedIP)
       /\ isIPAvailable(ls, requestedIP)
    THEN allocateIP(ls, idx, requestedIP, mac, hostname)
    ELSE IF findAvailableIP(ls) = NilIP
    THEN /\ leases' = ls
         /\ macToIP' = idx
         /\ ret' = Failed("request", mac)
    ELSE allocateIP(ls, idx, findAvailableIP(ls), mac, hostname)

\* A variant of RequestIP's first check that never finds a static binding.
hasStaticBinding_Never(mac) == FALSE

\* The MAC's entry resolves to a static lease.
hasStaticBinding(mac) ==
    /\ mac \in DOMAIN macToIP
    /\ macToIP[mac] \in DOMAIN leases
    /\ leases[macToIP[mac]].isStatic

\* The MAC's entry resolves to a lease that has not expired.
hasLiveLease(mac) ==
    /\ mac \in DOMAIN macToIP
    /\ macToIP[mac] \in DOMAIN leases
    /\ ~IsExpired(leases[macToIP[mac]], now)

\* A variant of the renewal branch that leaves the lease's start time alone.
renew_NoRefresh(mac, hostname) ==
    /\ leases' = [leases EXCEPT ![macToIP[mac]] = [@ EXCEPT !.hostname = hostname]]
    /\ macToIP' = macToIP
    /\ ret' = Returned("request", mac, macToIP[mac], "renew")

\* The renewal branch: refresh the lease the MAC's entry resolves to.
renew(mac, hostname) ==
    /\ leases' = [leases EXCEPT ![macToIP[mac]] =
                      [@ EXCEPT !.startTime = now, !.hostname = hostname]]
    /\ macToIP' = macToIP
    /\ ret' = Returned("request", mac, macToIP[mac], "renew")

RequestIP(clientMAC, requestedIP, hostname) ==
    /\ Built
    /\ UNCHANGED <<config, conflictIPs, now>>
    /\ LET macStr == ParseMAC(clientMAC) IN
       IF macStr = BadMAC
       THEN /\ ret' = Failed("request", BadMAC)
            /\ UNCHANGED <<leases, macToIP>>
       ELSE IF hasStaticBinding(macStr)
       THEN /\ ret' = Returned("request", macStr, macToIP[macStr], "static")
            /\ UNCHANGED <<leases, macToIP>>
       ELSE IF macStr \notin DOMAIN macToIP
       THEN allocateNew(leases, macToIP, macStr, requestedIP, hostname)
       ELSE IF hasLiveLease(macStr) /\ macToIP[macStr] \notin DOMAIN conflictIPs
       THEN renew(macStr, hostname)
       ELSE allocateNew(MapDelete(leases, macToIP[macStr]),
                        MapDelete(macToIP, macStr),
                        macStr, requestedIP, hostname)

\* A variant of ReleaseIP without the check that refuses static leases.
ReleaseIP_NoStaticCheck(clientMAC) ==
    /\ Built
    /\ UNCHANGED <<config, conflictIPs, now>>
    /\ LET macStr == ParseMAC(clientMAC) IN
       IF macStr = BadMAC
       THEN /\ ret' = Failed("release", BadMAC)
            /\ UNCHANGED <<leases, macToIP>>
       ELSE IF macStr \notin DOMAIN macToIP \/ macToIP[macStr] \notin DOMAIN leases
       THEN /\ ret' = Failed("release", macStr)
            /\ UNCHANGED <<leases, macToIP>>
       ELSE /\ leases' = MapDelete(leases, macToIP[macStr])
            /\ macToIP' = MapDelete(macToIP, macStr)
            /\ ret' = Returned("release", macStr, macToIP[macStr], "none")

ReleaseIP(clientMAC) ==
    /\ Built
    /\ UNCHANGED <<config, conflictIPs, now>>
    /\ LET macStr == ParseMAC(clientMAC) IN
       IF macStr = BadMAC
       THEN /\ ret' = Failed("release", BadMAC)
            /\ UNCHANGED <<leases, macToIP>>
       ELSE IF macStr \notin DOMAIN macToIP
       THEN /\ ret' = Failed("release", macStr)
            /\ UNCHANGED <<leases, macToIP>>
       ELSE IF macToIP[macStr] \notin DOMAIN leases
       THEN /\ ret' = Failed("release", macStr)
            /\ UNCHANGED <<leases, macToIP>>
       ELSE IF leases[macToIP[macStr]].isStatic
       THEN /\ ret' = Failed("release", macStr)
            /\ UNCHANGED <<leases, macToIP>>
       ELSE /\ leases' = MapDelete(leases, macToIP[macStr])
            /\ macToIP' = MapDelete(macToIP, macStr)
            /\ ret' = Returned("release", macStr, macToIP[macStr], "none")

\* The conflict entries cleanupConflictIPs keeps.
cleanupConflictIPs(t) ==
    [ip \in {x \in DOMAIN conflictIPs : ~(conflictIPs[x] < t - ConflictTTL)}
        |-> conflictIPs[ip]]

\* The leases CleanupExpiredLeases collects: dynamic and expired.
expiredIPs == {ip \in DOMAIN leases :
                  ~leases[ip].isStatic /\ IsExpired(leases[ip], now)}

\* A variant of CleanupExpiredLeases that leaves the index entries of the
\* leases it removes.
CleanupExpiredLeases_KeepingIndex ==
    /\ Built
    /\ leases' = [ip \in DOMAIN leases \ expiredIPs |-> leases[ip]]
    /\ macToIP' = macToIP
    /\ conflictIPs' = cleanupConflictIPs(now)
    /\ ret' = NoRet
    /\ UNCHANGED <<config, now>>

CleanupExpiredLeases ==
    /\ Built
    /\ leases' = [ip \in DOMAIN leases \ expiredIPs |-> leases[ip]]
    /\ macToIP' = [m \in DOMAIN macToIP \ {leases[ip].mac : ip \in expiredIPs}
                      |-> macToIP[m]]
    /\ conflictIPs' = cleanupConflictIPs(now)
    /\ ret' = NoRet
    /\ UNCHANGED <<config, now>>

MarkIPAsConflict(ip) ==
    /\ Built
    /\ conflictIPs' = MapPut(conflictIPs, ip, now)
    /\ ret' = NoRet
    /\ UNCHANGED <<config, leases, macToIP, now>>

\* A variant of removedIPs that does not spare static leases.
removedIPs_IncludingStatic(mac) ==
    {ip \in DOMAIN leases :
        \/ (mac \in DOMAIN macToIP /\ macToIP[mac] = ip)
        \/ leases[ip].mac = mac}

\* The dynamic leases RemoveAllLeasesByMAC drops for the MAC: the one its
\* entry resolves to, and every other one that carries the MAC.
removedIPs(mac) ==
    {ip \in DOMAIN leases :
        /\ ~leases[ip].isStatic
        /\ \/ (mac \in DOMAIN macToIP /\ macToIP[mac] = ip)
           \/ leases[ip].mac = mac}

RemoveAllLeasesByMAC(clientMAC) ==
    /\ Built
    /\ UNCHANGED <<config, conflictIPs, now>>
    /\ LET macStr == ParseMAC(clientMAC) IN
       IF macStr = BadMAC
       THEN /\ ret' = NoRet
            /\ UNCHANGED <<leases, macToIP>>
       ELSE /\ leases' = [ip \in DOMAIN leases \ removedIPs(macStr) |-> leases[ip]]
            /\ macToIP' = IF removedIPs(macStr) = {} THEN macToIP
                          ELSE MapDelete(macToIP, macStr)
            /\ ret' = NoRet

\* The clock advances; leases and conflict marks age.
Tick ==
    /\ Built
    /\ now < MaxTime
    /\ now' = now + 1
    /\ ret' = NoRet
    /\ UNCHANGED <<config, leases, macToIP, conflictIPs>>

\* A step of the pool alone.
PoolOnly == UNCHANGED <<serverVars, reloadVars, gatewayVars, otherVars>>

Next ==
    \/ \E m \in MACTexts, ip \in {NilIP, UnspecifiedIP} \cup Addresses,
          h \in Hostnames : RequestIP(m, ip, h) /\ PoolOnly
    \/ \E m \in MACTexts : ReleaseIP(m) /\ PoolOnly
    \/ \E m \in MACTexts : RemoveAllLeasesByMAC(m) /\ PoolOnly
    \/ \E ip \in ConflictInputs : MarkIPAsConflict(ip) /\ PoolOnly
    \/ CleanupExpiredLeases /\ PoolOnly
    \/ Tick /\ PoolOnly

Spec == Init /\ [][Next]_vars

-----------------------------------------------------------------------------
(* Properties of the pool *)

\* Two reservations of the configuration share an IP or share a MAC.
HasDuplicateReservation ==
    \E i, j \in 1..Len(config) :
        /\ i # j
        /\ \/ ParseIP(config[i].ip) = ParseIP(config[j].ip)
           \/ ParseMAC(config[i].mac) = ParseMAC(config[j].mac)

\* GetLeaseByMAC finds a lease for the MAC, and it is the MAC's own.
ResolvesToOwn(ls, idx, mac) ==
    /\ mac \in DOMAIN idx
    /\ idx[mac] \in DOMAIN ls
    /\ ls[idx[mac]].mac = mac

\* GetLeaseByMAC finds a dynamic lease for the MAC.
HoldsDynamic(mac) ==
    /\ mac \in DOMAIN macToIP
    /\ macToIP[mac] \in DOMAIN leases
    /\ ~leases[macToIP[mac]].isStatic

AvailableIPs == {ip \in PoolRange : isIPAvailable(leases, ip)}

\* C1: in every reachable state of a pool built from reservations with
\* pairwise distinct IPs and MACs, every key mac of mac_to_ip maps to an IP
\* that has an entry in leases, and that lease's mac equals mac.
C1_IndexConsistent ==
    (Built /\ ~HasDuplicateReservation) =>
        \A mac \in DOMAIN macToIP : ResolvesToOwn(leases, macToIP, mac)

\* C2, for N = 2: when a request_ip that succeeded is followed at once (no
\* other operation, no clock advance in between) by a request_ip from another
\* MAC, and the pool still has two available addresses (so it had two before
\* the first call: request_ip never frees an address), the second call
\* succeeds and returns a different IP. The pool is built from reservations
\* with pairwise distinct IPs and MACs.
C2_ConcurrentDistinct ==
    [][(/\ ~HasDuplicateReservation
        /\ ret.op = "request" /\ ret.ok
        /\ ret'.op = "request" /\ ret'.mac \in MACs /\ ret'.mac # ret.mac
        /\ Cardinality(AvailableIPs) >= 2)
       => (ret'.ok /\ ret'.ip # ret.ip)]_vars

\* C3: request_ip either fails or returns a lease whose IP lies in the
\* inclusive range [start_ip, end_ip], whatever the reservations are.
C3_ReturnedInRange ==
    (ret.op = "request" /\ ret.ok) => isIPInRange(ret.ip)

\* C4: every static lease that construction materialized is in the pool,
\* unchanged (same IP, MAC, is_static and every other field) and not expired,
\* in every reachable state.
C4_StaticLeaseKept ==
    Built =>
        \A ip \in DOMAIN NewIPPool(config).leases :
            /\ ip \in DOMAIN leases
            /\ leases[ip] = NewIPPool(config).leases[ip]
            /\ leases[ip].isStatic
            /\ ~IsExpired(leases[ip], now)
            /\ ip \notin expiredIPs

\* C4's case: a static lease is in the pool, the clock has passed its start
\* time, a dynamic lease was granted next to it and a conflict was marked on it.
C4_Witness ==
    /\ now = MaxTime
    /\ \E ip \in DOMAIN leases : leases[ip].isStatic /\ ip \in DOMAIN conflictIPs
    /\ ret.op = "request" /\ ret.ok /\ ret.path = "new"

\* C5: release_ip applied to a MAC whose lease is static returns an error and
\* leaves leases, mac_to_ip and the conflict set unchanged.
C5_StaticReleaseRefused ==
    [][(ret'.op = "release" /\ hasStaticBinding(ret'.mac))
       => (~ret'.ok /\ UNCHANGED <<leases, macToIP, conflictIPs>>)]_vars

\* C5's case: release_ip was just refused for a MAC whose lease is static.
C5_Witness ==
    /\ ret.op = "release" /\ ~ret.ok
    /\ hasStaticBinding(ret.mac)

\* C6: release_ip applied to a MAC that holds a dynamic lease succeeds,
\* decreases the number of leases by exactly 1, removes the lease granted to
\* that MAC (its IP has no lease afterwards), and every other MAC that
\* resolved to its own lease still resolves to it.
C6_DynamicRelease ==
    [][(ret'.op = "release" /\ HoldsDynamic(ret'.mac))
       => (/\ ret'.ok
           /\ Cardinality(DOMAIN leases') = Cardinality(DOMAIN leases) - 1
           /\ leases[macToIP[ret'.mac]].mac = ret'.mac
           /\ macToIP[ret'.mac] \notin DOMAIN leases'
           /\ \A other \in MACs \ {ret'.mac} :
                  ResolvesToOwn(leases, macToIP, other)
                      => /\ ResolvesToOwn(leases', macToIP', other)
                         /\ macToIP'[other] = macToIP[other])]_vars

\* The MAC's entry resolves to an unexpired dynamic lease.
HoldsUnexpiredDynamic(mac) == HoldsDynamic(mac) /\ hasLiveLease(mac)

\* What renewal promises for the request_ip that made this step: the IP the
\* MAC had, start_time set to the current time, as many leases as before.
Renewed ==
    /\ ret'.ok
    /\ ret'.ip = macToIP[ret'.mac]
    /\ ret'.ip \in DOMAIN leases'
    /\ leases'[ret'.ip].startTime = now
    /\ Cardinality(DOMAIN leases') = Cardinality(DOMAIN leases)

\* C7 as stated: request_ip for a MAC that holds an unexpired dynamic lease
\* returns the same IP, sets the lease's start_time to the current time and
\* keeps the number of leases.
C7_RenewalAlways ==
    [][(ret'.op = "request" /\ HoldsUnexpiredDynamic(ret'.mac)) => Renewed]_vars

\* C7, amended: request_ip for a MAC that holds an unexpired dynamic lease
\* whose IP is not in the conflict set returns the same IP, sets the lease's
\* start_time to the current time and keeps the number of leases.
C7_RenewalUnlessConflict ==
    [][(/\ ret'.op = "request"
        /\ HoldsUnexpiredDynamic(ret'.mac)
        /\ macToIP[ret'.mac] \notin DOMAIN conflictIPs) => Renewed]_vars

\* C7's case: a dynamic lease granted earlier was just renewed at a later
\* time, next to a second lease.
C7_Witness ==
    /\ ret.op = "request" /\ ret.ok /\ ret.path = "renew"
    /\ now > 0
    /\ leases[ret.ip].startTime = now
    /\ ~leases[ret.ip].isStatic
    /\ Cardinality(DOMAIN leases) = 2

\* A conflict mark stays, with a time no older, while its TTL has not elapsed.
ConflictMarksKept ==
    \A ip \in DOMAIN conflictIPs :
        now' <= conflictIPs[ip] + ConflictTTL
            => (ip \in DOMAIN conflictIPs' /\ conflictIPs'[ip] >= conflictIPs[ip])

\* C8 as stated: an IP marked as conflicting stays marked until its TTL has
\* elapsed, and no request_ip by any MAC returns an IP that is marked.
C8_ConflictNeverReturned ==
    [][/\ ConflictMarksKept
       /\ (ret'.op = "request" /\ ret'.ok) => ret'.ip \notin DOMAIN conflictIPs
      ]_vars

\* C8, amended: an IP marked as conflicting stays marked until its TTL has
\* elapsed, and no request_ip returns an IP that is marked, except to a MAC
\* whose entry resolves to a static lease, which is returned that lease.
C8_ConflictReturnedOnlyStatic ==
    [][/\ ConflictMarksKept
       /\ (ret'.op = "request" /\ ret'.ok /\ ret'.ip \in DOMAIN conflictIPs)
              => (ret'.path = "static" /\ leases[ret'.ip].isStatic)
      ]_vars

\* C8's case: the first address of the range is marked and has no lease, and
\* the request_ip just answered allocated another address instead.
C8_Witness ==
    /\ ret.op = "request" /\ ret.ok /\ ret.path = "new"
    /\ startIP \in DOMAIN conflictIPs
    /\ startIP \notin DOMAIN leases
    /\ ret.ip # startIP
    /\ Cardinality(DOMAIN leases) = 1

\* The IPs the configuration reserves for the MAC.
ReservedIPs(mac) ==
    {ParseIP(config[i].ip) : i \in {j \in 1..Len(config) : ParseMAC(config[j].mac) = mac}}

\* C9: request_ip from a MAC that has a reservation returns a static lease on
\* an IP reserved for it, whatever IP the client asked for, and leaves leases,
\* mac_to_ip and the conflict set unchanged.
C9_StaticOverride ==
    [][(ret'.op = "request" /\ ReservedIPs(ret'.mac) # {})
       => (/\ ret'.ok
           /\ ret'.ip \in ReservedIPs(ret'.mac)
           /\ ret'.ip \in DOMAIN leases' /\ leases'[ret'.ip].isStatic
           /\ UNCHANGED <<leases, macToIP, conflictIPs>>)]_vars

\* C9's case: a reserved MAC was just answered with its static lease while
\* the other address of the range it could have asked for is free, later than
\* the lease's start.
C9_Witness ==
    /\ ret.op = "request" /\ ret.ok /\ ret.path = "static"
    /\ ReservedIPs(ret.mac) = {startIP}
    /\ ret.ip = startIP
    /\ now > 0
    /\ Cardinality(AvailableIPs) = 2

\* C10: construction fails, and returns no pool, whenever two reservations
\* of the configuration share an IP or share a MAC.
C10_DuplicateRefused ==
    (ret.op = "construct" /\ HasDuplicateReservation)
        => (~ret.ok /\ leases = EmptyMap /\ macToIP = EmptyMap)

-----------------------------------------------------------------------------
(* The engine: packet handlers (src/dhcp/server.go) *)

\* The engine handles at most this many packets.
MaxPackets == 2

\* NewServer: maxHistory.
maxHistory == 1000

\* A history record, without its timestamp, gateway and server address.
HistoryRecord(ip, mac, hostname, action) ==
    [ip |-> ip, mac |-> mac, hostname |-> hostname, action |-> action]

\* addSampleHistory: the records NewServer puts into an empty history.
sampleRecords ==
    << HistoryRecord(startIP, "aa:01", "test-device-01", "DISCOVER"),
       HistoryRecord(startIP, "aa:01", "test-device-01", "REQUEST"),
       HistoryRecord(startIP + 1, "aa:02", "laptop-user01", "DISCOVER"),
       HistoryRecord(startIP + 1, "aa:02", "laptop-user01", "REQUEST"),
       HistoryRecord(startIP + 2, "aa:03", "mobile-device", "DISCOVER"),
       HistoryRecord(startIP + 2, "aa:03", "mobile-device", "REQUEST"),
       HistoryRecord(startIP, "aa:01", "test-device-01", "RELEASE"),
       HistoryRecord(startIP + 3, "aa:04", "printer-office", "DISCOVER"),
       HistoryRecord(startIP + 3, "aa:04", "printer-office", "REQUEST") >>

\* A variant of addHistory that appends and never trims.
addHistory_NoTrim(h, record) == Append(h, record)

\* addHistory: append, then keep the last maxHistory records.
addHistory(h, record) ==
    LET appended == Append(h, record) IN
    IF Len(appended) > maxHistory
    THEN SubSeq(appended, Len(appended) - maxHistory + 1, Len(appended))
    ELSE appended

Packet(type, mac, requestedIP, clientIP, serverIP) ==
    [type |-> type, mac |-> mac, requestedIP |-> requestedIP,
     clientIP |-> clientIP, serverIP |-> serverIP]

\* A variant of isOurServerIP that takes every address for the server's own.
isOurServerIP_Any(ip) == TRUE

isOurServerIP(ip) == ip = OurServerIP

\* A step of the engine: one more packet handled; reload and gateway
\* selection are left alone.
Handled(p) ==
    /\ packets < MaxPackets
    /\ packets' = packets + 1
    /\ packet' = p
    /\ UNCHANGED <<allowAnyServerIP, reloadVars, gatewayVars, otherVars>>

handleDiscover(clientMAC, requestedIP, hostname) ==
    /\ Handled(Packet("DISCOVER", clientMAC, requestedIP, UnspecifiedIP, NilServerIP))
    /\ RequestIP(clientMAC, requestedIP, hostname)
    /\ IF ret'.ok
       THEN /\ history' = addHistory(history,
                              HistoryRecord(ret'.ip, clientMAC, hostname, "DISCOVER"))
            /\ response' = [type |-> "OFFER", ip |-> ret'.ip]
       ELSE /\ history' = history
            /\ response' = NoResponse

\* createNAK: yiaddr is 0.0.0.0.
NAK == [type |-> "NAK", ip |-> UnspecifiedIP]

handleRequest(clientMAC, requestedIP, clientIP, serverIP, hostname) ==
    /\ Built
    /\ Handled(Packet("REQUEST", clientMAC, requestedIP, clientIP, serverIP))
    /\ ret' = NoRet
    /\ UNCHANGED <<config, macToIP, conflictIPs, now>>
    /\ IF serverIP # NilServerIP /\ ~isOurServerIP(serverIP)
       THEN /\ response' = NoResponse
            /\ UNCHANGED <<leases, history>>
       ELSE LET ip == IF requestedIP = NilIP THEN clientIP ELSE requestedIP IN
            IF ip = NilIP \/ ip = UnspecifiedIP
            THEN /\ response' = NAK
                 /\ UNCHANGED <<leases, history>>
            ELSE IF ip \notin DOMAIN leases
            THEN /\ response' = NAK
                 /\ UNCHANGED <<leases, history>>
            ELSE IF leases[ip].mac # clientMAC
            THEN /\ response' = NAK
                 /\ UNCHANGED <<leases, history>>
            ELSE /\ leases' = IF leases[ip].isStatic THEN leases
                              ELSE [leases EXCEPT ![ip].startTime = now]
                 /\ history' = addHistory(history,
                                   HistoryRecord(ip, clientMAC, hostname, "REQUEST"))
                 /\ response' = [type |-> "ACK", ip |-> ip]

handleRelease(clientMAC, clientIP, hostname) ==
    /\ Handled(Packet("RELEASE", clientMAC, NilIP, clientIP, NilServerIP))
    /\ history' = addHistory(history,
                      HistoryRecord(clientIP, clientMAC, hostname, "RELEASE"))
    /\ ReleaseIP(clientMAC)
    /\ response' = NoResponse

handleDecline(clientMAC, requestedIP, hostname) ==
    /\ Built
    /\ Handled(Packet("DECLINE", clientMAC, requestedIP, UnspecifiedIP, NilServerIP))
    /\ history' = addHistory(history,
                      HistoryRecord(requestedIP, clientMAC, hostname, "DECLINE"))
    /\ response' = NoResponse
    /\ ret' = NoRet
    /\ UNCHANGED <<config, leases, macToIP, conflictIPs, now>>

\* The reply to an INFORM carries no address.
handleInform(clientMAC, clientIP, hostname) ==
    /\ Built
    /\ Handled(Packet("INFORM", clientMAC, NilIP, clientIP, NilServerIP))
    /\ history' = addHistory(history,
                      HistoryRecord(clientIP, clientMAC, hostname, "INFORM"))
    /\ response' = [type |-> "ACK", ip |-> UnspecifiedIP]
    /\ ret' = NoRet
    /\ UNCHANGED <<config, leases, macToIP, conflictIPs, now>>

\* The configurations the engine is started with: no reservation, or one
\* for the first MAC that NewIPPool accepts.
ServerConfigs ==
    {c \in Configs : /\ Len(c) <= 1
                     /\ NewIPPool(c).ok
                     /\ \A i \in DOMAIN c : c[i].mac = "aa:01"}

\* The addresses a client names in a packet, and the pairs of requested
\* address (option 50) and client address (ciaddr) a REQUEST carries.
PacketIPs == {startIP, startIP + 1}
RequestIPs == {<<NilIP, UnspecifiedIP>>, <<NilIP, startIP>>}
                  \cup {<<ip, UnspecifiedIP>> : ip \in PacketIPs}

ServerInit ==
    /\ ReloadAtRest /\ GatewayAtRest /\ OthersAtRest
    /\ config \in ServerConfigs
    /\ leases = NewIPPool(config).leases
    /\ macToIP = NewIPPool(config).macToIP
    /\ conflictIPs = EmptyMap
    /\ now = 0
    /\ ret = Returned("construct", BadMAC, NilIP, "none")
    /\ allowAnyServerIP \in BOOLEAN
    /\ history = sampleRecords
    /\ packet = NoPacket
    /\ response = NoResponse
    /\ packets = 0

\* A step of the pool's own tasks while the engine runs.
PoolTask == UNCHANGED <<serverVars, reloadVars, gatewayVars, otherVars>>

ServerNext ==
    \/ \E m \in MACs, ip \in {NilIP} \cup PacketIPs, h \in Hostnames :
          handleDiscover(m, ip, h)
    \/ \E m \in MACs, ips \in RequestIPs, sid \in ServerIPs, h \in Hostnames :
          handleRequest(m, ips[1], ips[2], sid, h)
    \/ \E m \in MACs, c \in {startIP}, h \in Hostnames : handleRelease(m, c, h)
    \/ \E m \in MACs, ip \in PacketIPs, h \in Hostnames : handleDecline(m, ip, h)
    \/ \E m \in MACs, c \in {startIP}, h \in Hostnames : handleInform(m, c, h)
    \/ CleanupExpiredLeases /\ PoolTask
    \/ Tick /\ PoolTask

ServerSpec == ServerInit /\ [][ServerNext]_vars

-----------------------------------------------------------------------------
(* Properties of the packet handlers *)

\* This step handled a packet of the given type.
Handles(type) == packets' = packets + 1 /\ packet'.type = type

\* C11: a DECLINE from a MAC for address x leaves that MAC without a dynamic
\* lease and x in the conflict set, and a DISCOVER from a different MAC that
\* is handled next is not offered x.
C11_DeclineQuarantines ==
    [][/\ Handles("DECLINE")
           => /\ ~(/\ packet'.mac \in DOMAIN macToIP'
                   /\ macToIP'[packet'.mac] \in DOMAIN leases'
                   /\ ~leases'[macToIP'[packet'.mac]].isStatic)
              /\ packet'.requestedIP \in DOMAIN conflictIPs'
       /\ (/\ packet.type = "DECLINE"
           /\ Handles("DISCOVER")
           /\ packet'.mac # packet.mac
           /\ response'.type = "OFFER")
           => response'.ip # packet.requestedIP
      ]_vars

\* The REQUEST handled in this step passes the server-identifier check of a
\* server that does not accept foreign identifiers.
RequestForUs ==
    /\ Handles("REQUEST")
    /\ packet'.serverIP \in {NilServerIP, OurServerIP}

\* C12: a REQUEST that names an address (option 50), from a client whose
\* MAC resolves to an unexpired lease of its own, is answered with an ACK
\* carrying the pool's IP for that MAC, and a dynamic lease is renewed (its
\* start_time is the current time), whichever address the client named.
C12_RequestKeepsPoolIP ==
    [][(/\ RequestForUs
        /\ packet'.requestedIP # NilIP
        /\ ResolvesToOwn(leases, macToIP, packet'.mac)
        /\ hasLiveLease(packet'.mac))
       => (/\ response'.type = "ACK"
           /\ response'.ip = macToIP[packet'.mac]
           /\ macToIP'[packet'.mac] = macToIP[packet'.mac]
           /\ response'.ip \in DOMAIN leases'
           /\ leases'[response'.ip].mac = packet'.mac
           /\ (~leases'[response'.ip].isStatic
                  => leases'[response'.ip].startTime = now))]_vars

\* C13: a REQUEST from a MAC that has no lease is answered with an ACK when
\* the pool has an available address, with a lease for that MAC on the
\* acknowledged address, and with a NAK only when it has none.
C13_RequestAllocates ==
    [][(/\ RequestForUs
        /\ packet'.mac \notin DOMAIN macToIP
        /\ \A ip \in DOMAIN leases : leases[ip].mac # packet'.mac)
       => (/\ AvailableIPs # {}
               => /\ response'.type = "ACK"
                  /\ response'.ip \in DOMAIN leases'
                  /\ leases'[response'.ip].mac = packet'.mac
           /\ response'.type = "NAK" => AvailableIPs = {})]_vars

\* C14: with allow_any_server_ip false, a REQUEST carrying a server
\* identifier that is not the server's own address gets no response and
\* leaves the lease table, the MAC index, the conflict set and the history
\* unchanged.
C14_ForeignRequestDropped ==
    [][(/\ Handles("REQUEST")
        /\ ~allowAnyServerIP
        /\ packet'.serverIP = ForeignServerIP)
       => (/\ response' = NoResponse
           /\ UNCHANGED <<leases, macToIP, conflictIPs, history>>)]_vars

\* C14's case: a REQUEST with a foreign server identifier was just handled by
\* a server that does not accept one, for the address the client holds a
\* lease on, after a DISCOVER was recorded in the history.
C14_Witness ==
    /\ ~allowAnyServerIP
    /\ packet.type = "REQUEST"
    /\ packet.serverIP = ForeignServerIP
    /\ packet.requestedIP \in DOMAIN leases
    /\ leases[packet.requestedIP].mac = packet.mac
    /\ ~leases[packet.requestedIP].isStatic
    /\ Len(history) > Len(sampleRecords)
    /\ response = NoResponse

\* C15: with allow_any_server_ip true, a REQUEST carrying a foreign server
\* identifier is answered with an ACK or a NAK.
C15_ForeignRequestProcessed ==
    [][(/\ Handles("REQUEST")
        /\ allowAnyServerIP
        /\ packet'.serverIP = ForeignServerIP)
       => response'.type \in {"ACK", "NAK"}]_vars

-----------------------------------------------------------------------------
(* Hot reload (src/main.go) and the API route that deletes a reservation *)

\* A pool other than the running one, as a value: the pool of the engine
\* that reloadConfig builds. RequestIP on it, as migrateLeases calls it.
isIPAvailableIn(pool, ip) ==
    IF ip \in DOMAIN pool.conflictIPs THEN FALSE
    ELSE IF ip \notin DOMAIN pool.leases THEN TRUE
    ELSE IF pool.leases[ip].isStatic THEN FALSE
    ELSE IsExpired(pool.leases[ip], now)

RECURSIVE scanFromIn(_, _)
scanFromIn(pool, i) ==
    IF i > endIP THEN NilIP
    ELSE IF isIPAvailableIn(pool, i) THEN i
    ELSE scanFromIn(pool, i + 1)

findAvailableIPIn(pool) ==
    IF startIP > endIP THEN NilIP ELSE scanFromIn(pool, startIP)

allocateIPIn(pool, ip, mac, hostname) ==
    [pool EXCEPT !.leases = MapPut(@, ip, DynamicLease(ip, mac, hostname)),
                 !.macToIP = MapPut(@, mac, ip)]

allocateNewIn(pool, mac, requestedIP, hostname) ==
    IF /\ requestedIP # NilIP
       /\ requestedIP # UnspecifiedIP
       /\ isIPInRange(requestedIP)
       /\ isIPAvailableIn(pool, requestedIP)
    THEN allocateIPIn(pool, requestedIP, mac, hostname)
    ELSE IF findAvailableIPIn(pool) = NilIP THEN pool
    ELSE allocateIPIn(pool, findAvailableIPIn(pool), mac, hostname)

\* The pool RequestIP leaves; its result is only logged by migrateLeases.
RequestIPIn(pool, clientMAC, requestedIP, hostname) ==
    LET macStr == ParseMAC(clientMAC)
        held == IF macStr \in DOMAIN pool.macToIP THEN pool.macToIP[macStr] ELSE NilIP
    IN  IF macStr = BadMAC THEN pool
        ELSE IF held # NilIP /\ held \in DOMAIN pool.leases /\ pool.leases[held].isStatic
        THEN pool
        ELSE IF held = NilIP
        THEN allocateNewIn(pool, macStr, requestedIP, hostname)
        ELSE IF /\ held \in DOMAIN pool.leases
                /\ ~IsExpired(pool.leases[held], now)
                /\ held \notin DOMAIN pool.conflictIPs
        THEN [pool EXCEPT !.leases[held] =
                              [@ EXCEPT !.startTime = now, !.hostname = hostname]]
        ELSE allocateNewIn([pool EXCEPT !.leases = MapDelete(@, held),
                                        !.macToIP = MapDelete(@, macStr)],
                           macStr, requestedIP, hostname)

\* GetActiveLeases: the leases that have not expired.
GetActiveLeases == {leases[ip] : ip \in {x \in DOMAIN leases : ~IsExpired(leases[x], now)}}

\* The orders in which a range over a Go map can visit the leases.
Orders(set) ==
    {o \in [1..Cardinality(set) -> set] :
        \A i, j \in 1..Cardinality(set) : i # j => o[i] # o[j]}

\* The loop of migrateLeases from the i-th lease of the order on.
RECURSIVE migrateFrom(_, _, _)
migrateFrom(pool, order, i) ==
    IF i > Len(order) THEN pool
    ELSE migrateFrom(RequestIPIn(pool, order[i].mac, order[i].ip, order[i].hostname),
                     order, i + 1)

\* Config.Validate, for the reservations: every MAC and every IP parses.
Validate(bindings) ==
    \A i \in 1..Len(bindings) :
        ParseMAC(bindings[i].mac) # BadMAC /\ ParseIP(bindings[i].ip) # NilIP

\* The configurations a reload is given, and the ones the server starts
\* with: no reservation, or one whose MAC is not the second client's.
ReloadConfigs == {c \in Configs : Len(c) <= 1 /\ \A i \in DOMAIN c : c[i].mac # "aa:02"}

\* A step of reload or of the API that leaves the engine's packet state and
\* gateway selection alone.
ReloadOnly ==
    UNCHANGED <<allowAnyServerIP, packet, response, packets, gatewayVars,
                otherVars>>

\* handleConfigReload: load the file (LoadConfig validates it), then call
\* reloadConfig from the request's goroutine.
handleConfigReload(c, fileConfig) ==
    /\ Built
    /\ calls[c] = NoCall
    /\ Validate(fileConfig)
    /\ calls' = [calls EXCEPT ![c] = [pc |-> "called", cfg |-> fileConfig,
                                     live |-> FALSE, deleted |-> BadMAC,
                                     result |-> "none"]]
    /\ UNCHANGED <<poolVars, history, apiConfig, restartHolder, isRestarting,
                   newLeases, newMacToIP>>
    /\ ReloadOnly

\* handleDeleteStaticBinding: drop the reservation from the live
\* configuration, remove the MAC's dynamic leases from the running pool, and
\* start a goroutine that calls reloadConfig with the live configuration.
handleDeleteStaticBinding(c, i) ==
    /\ calls[c] = NoCall
    /\ i \in 1..Len(apiConfig)
    /\ apiConfig' = SubSeq(apiConfig, 1, i - 1) \o SubSeq(apiConfig, i + 1, Len(apiConfig))
    /\ RemoveAllLeasesByMAC(apiConfig[i].mac)
    /\ calls' = [calls EXCEPT ![c] = [pc |-> "called", cfg |-> <<>>,
                                     live |-> TRUE,
                                     deleted |-> ParseMAC(apiConfig[i].mac),
                                     result |-> "none"]]
    /\ UNCHANGED <<history, restartHolder, isRestarting, newLeases, newMacToIP>>
    /\ ReloadOnly

\* A variant of reloadConfig that returns the error of NewServer without
\* clearing isRestarting.
enter_FlagLeftSet(c) ==
    LET newConfig == IF calls[c].live THEN apiConfig ELSE calls[c].cfg
        built == NewIPPool(newConfig)
    IN  IF isRestarting
        THEN /\ calls' = [calls EXCEPT ![c] = [NoCall EXCEPT !.result = "in progress"]]
             /\ UNCHANGED <<restartHolder, isRestarting, newLeases, newMacToIP>>
        ELSE IF ~built.ok
        THEN /\ calls' = [calls EXCEPT ![c] = [NoCall EXCEPT !.result = "error"]]
             /\ isRestarting' = TRUE
             /\ UNCHANGED <<restartHolder, newLeases, newMacToIP>>
        ELSE /\ calls' = [calls EXCEPT ![c].pc = "migrate", ![c].cfg = newConfig]
             /\ restartHolder' = c
             /\ isRestarting' = TRUE
             /\ newLeases' = [ip \in DOMAIN built.leases |->
                                 [built.leases[ip] EXCEPT !.startTime = now]]
             /\ newMacToIP' = built.macToIP

\* reloadConfig once restartMutex is taken, up to the new engine: the check
\* of isRestarting, then NewServer on the configuration passed in.
enter(c) ==
    LET newConfig == IF calls[c].live THEN apiConfig ELSE calls[c].cfg
        built == NewIPPool(newConfig)
    IN  IF isRestarting
        THEN /\ calls' = [calls EXCEPT ![c] = [NoCall EXCEPT !.result = "in progress"]]
             /\ UNCHANGED <<restartHolder, isRestarting, newLeases, newMacToIP>>
        ELSE IF ~built.ok
        THEN /\ calls' = [calls EXCEPT ![c] = [NoCall EXCEPT !.result = "error"]]
             /\ UNCHANGED <<restartHolder, isRestarting, newLeases, newMacToIP>>
        ELSE /\ calls' = [calls EXCEPT ![c].pc = "migrate", ![c].cfg = newConfig]
             /\ restartHolder' = c
             /\ isRestarting' = TRUE
             /\ newLeases' = [ip \in DOMAIN built.leases |->
                                 [built.leases[ip] EXCEPT !.startTime = now]]
             /\ newMacToIP' = built.macToIP

\* reloadConfig reaches restartMutex.Lock(): it goes on when the mutex is
\* free and waits in Lock() when another call holds it.
reloadConfig(c) ==
    /\ calls[c].pc = "called"
    /\ IF restartHolder = Nobody
       THEN enter(c)
       ELSE /\ calls' = [calls EXCEPT ![c].pc = "blocked"]
            /\ UNCHANGED <<restartHolder, isRestarting, newLeases, newMacToIP>>
    /\ UNCHANGED <<poolVars, history, apiConfig>>
    /\ ReloadOnly

\* Lock() returns to a waiting call once the mutex is free.
reloadConfigUnblocked(c) ==
    /\ calls[c].pc = "blocked"
    /\ restartHolder = Nobody
    /\ enter(c)
    /\ UNCHANGED <<poolVars, history, apiConfig>>
    /\ ReloadOnly

\* migrateLeases: read the active leases of the old pool, then request each
\* one's address for its MAC in the new pool, in the order the map yields.
migrateLeases(c) ==
    /\ calls[c].pc = "migrate"
    /\ \E order \in Orders(GetActiveLeases) :
          LET migrated == migrateFrom([leases |-> newLeases, macToIP |-> newMacToIP,
                                       conflictIPs |-> EmptyMap], order, 1)
          IN  /\ newLeases' = migrated.leases
              /\ newMacToIP' = migrated.macToIP
    /\ calls' = [calls EXCEPT ![c].pc = "restart"]
    /\ UNCHANGED <<poolVars, history, apiConfig, restartHolder, isRestarting>>
    /\ ReloadOnly

\* The rest of reloadConfig: the global references are swapped, the old
\* engine is stopped and the new one started, the API is given the new
\* references, isRestarting is cleared and restartMutex released. From here
\* on the running pool is the new one.
restartServices(c) ==
    /\ calls[c].pc = "restart"
    /\ config' = calls[c].cfg
    /\ leases' = newLeases
    /\ macToIP' = newMacToIP
    /\ conflictIPs' = EmptyMap
    /\ ret' = NoRet
    /\ history' = sampleRecords
    /\ apiConfig' = IF calls[c].live THEN apiConfig ELSE calls[c].cfg
    /\ calls' = [calls EXCEPT ![c] = [NoCall EXCEPT !.result = "ok"]]
    /\ restartHolder' = Nobody
    /\ isRestarting' = FALSE
    /\ newLeases' = EmptyMap
    /\ newMacToIP' = EmptyMap
    /\ UNCHANGED now
    /\ ReloadOnly

ReloadInit ==
    /\ GatewayAtRest /\ OthersAtRest
    /\ config \in {c \in ReloadConfigs : NewIPPool(c).ok}
    /\ leases = NewIPPool(config).leases
    /\ macToIP = NewIPPool(config).macToIP
    /\ conflictIPs = EmptyMap
    /\ now = 0
    /\ ret = Returned("construct", BadMAC, NilIP, "none")
    /\ allowAnyServerIP = FALSE
    /\ history = sampleRecords
    /\ packet = NoPacket
    /\ response = NoResponse
    /\ packets = 0
    /\ apiConfig = config
    /\ calls = [c \in Callers |-> NoCall]
    /\ restartHolder = Nobody
    /\ isRestarting = FALSE
    /\ newLeases = EmptyMap
    /\ newMacToIP = EmptyMap

ReloadNext ==
    \/ \E m \in MACs, h \in Hostnames : handleDiscover(m, NilIP, h)
    \/ \E c \in Callers, fileConfig \in ReloadConfigs : handleConfigReload(c, fileConfig)
    \/ \E c \in Callers, i \in 1..MaxBindings : handleDeleteStaticBinding(c, i)
    \/ \E c \in Callers : reloadConfig(c)
    \/ \E c \in Callers : reloadConfigUnblocked(c)
    \/ \E c \in Callers : migrateLeases(c)
    \/ \E c \in Callers : restartServices(c)
    \/ Tick /\ PoolTask

ReloadSpec == ReloadInit /\ [][ReloadNext]_vars

-----------------------------------------------------------------------------
(* Properties of hot reload *)

\* C16: a call of reload that reaches the reload lock while another reload
\* holds it returns at that step with the "reload in progress" error, and
\* the step changes neither the configuration nor either pool.
C16_SecondReloadRefused ==
    [][\A c \in Callers :
          (/\ calls[c].pc = "called"
           /\ restartHolder # Nobody
           /\ calls'[c] # calls[c])
          => (/\ calls'[c].pc = "idle"
              /\ calls'[c].result = "in progress"
              /\ UNCHANGED <<config, apiConfig, leases, macToIP, conflictIPs,
                             newLeases, newMacToIP>>)]_vars

\* This step is the migration of caller c's reload.
Migrates(c) == calls[c].pc = "migrate" /\ calls'[c].pc = "restart"

\* This step is the end of caller c's reload: the new engine takes over.
Completes(c) == calls[c].pc = "restart" /\ calls'[c].pc = "idle"

\* C17: after migration the new pool binds mac to ip, by a lease on ip for
\* mac, for every unexpired lease (mac, ip) of the old pool whose ip lies in
\* the range and is not reserved for another MAC by the new configuration,
\* and whose mac has no reservation in it, whatever the order of migration
\* and whatever other old leases lie outside the range.
C17_MigrationKeepsLeases ==
    [][\A c \in Callers :
          Migrates(c) =>
              \A lease \in GetActiveLeases :
                  (/\ isIPInRange(lease.ip)
                   /\ lease.ip \notin DOMAIN newLeases
                   /\ lease.mac \notin DOMAIN newMacToIP)
                  => (/\ lease.mac \in DOMAIN newMacToIP'
                      /\ newMacToIP'[lease.mac] = lease.ip
                      /\ lease.ip \in DOMAIN newLeases'
                      /\ newLeases'[lease.ip].mac = lease.mac)]_vars

\* C18: when a reload from a configuration without reservations to a
\* configuration without reservations completes, every unexpired lease the
\* old pool holds at that moment is in the new pool with the same MAC and IP.
C18_NoLeaseLostByReload ==
    [][\A c \in Callers :
          (Completes(c) /\ config = <<>> /\ calls[c].cfg = <<>>)
          => \A lease \in GetActiveLeases :
                 /\ lease.ip \in DOMAIN leases'
                 /\ leases'[lease.ip].mac = lease.mac]_vars

\* C19: when the reload started by the deletion of a reservation completes,
\* and the configuration it loaded has no reservation for the MAC of the
\* deleted one, the running pool holds no lease for that MAC, static or
\* dynamic, and no index entry for it.
C19_DeletedReservationGone ==
    [][\A c \in Callers :
          (/\ Completes(c)
           /\ calls[c].deleted # BadMAC
           /\ \A i \in 1..Len(calls[c].cfg) :
                  ParseMAC(calls[c].cfg[i].mac) # calls[c].deleted)
          => (/\ calls[c].deleted \notin DOMAIN macToIP'
              /\ \A ip \in DOMAIN leases' : leases'[ip].mac # calls[c].deleted)]_vars

-----------------------------------------------------------------------------
(* Gateway selection (src/gateway/checker.go, config.Gateway) *)

GatewayNames == {"g1", "g2", "g3"}
\* A name no gateway of the configuration has.
UnknownGateway == "gx"
\* Gateway.IP: each gateway of a configuration file has an address of its own.
GatewayIP(name) ==
    CASE name = "g1" -> 101
      [] name = "g2" -> 102
      [] name = "g3" -> 103
      [] OTHER -> 104

\* The configurations: gateways with pairwise distinct names, in any order,
\* exactly one of them the default (Config.Validate).
GatewayConfigs ==
    UNION {{g \in [1..Cardinality(names) ->
                      {[name |-> n, ip |-> GatewayIP(n), isDefault |-> d] :
                           n \in names, d \in BOOLEAN}] :
               /\ \A i, j \in DOMAIN g : i # j => g[i].name # g[j].name
               /\ Cardinality({i \in DOMAIN g : g[i].isDefault}) = 1}
           : names \in SUBSET GatewayNames \ {{}}}

\* NewHealthChecker: every gateway starts healthy.
NewHealthChecker(gws) == [name \in {gws[i].name : i \in DOMAIN gws} |-> TRUE]

IsGatewayHealthy(st, gatewayName) ==
    IF gatewayName \in DOMAIN st THEN st[gatewayName] ELSE FALSE

\* The loop of FindGatewayByName from gateway i on.
RECURSIVE findByNameFrom(_, _, _)
findByNameFrom(gws, name, i) ==
    IF i > Len(gws) THEN NilGateway
    ELSE IF gws[i].name = name THEN gws[i]
    ELSE findByNameFrom(gws, name, i + 1)

FindGatewayByName(gws, name) == findByNameFrom(gws, name, 1)

\* The loop of GetDefaultGateway from gateway i on.
RECURSIVE defaultFrom(_, _)
defaultFrom(gws, i) ==
    IF i > Len(gws) THEN NilGateway
    ELSE IF gws[i].isDefault THEN gws[i]
    ELSE defaultFrom(gws, i + 1)

GetDefaultGateway(gws) == defaultFrom(gws, 1)

\* The loop of GetHealthyGateway over the gateways, from gateway i on.
RECURSIVE firstHealthyFrom(_, _, _)
firstHealthyFrom(gws, st, i) ==
    IF i > Len(gws) THEN NilGateway
    ELSE IF IsGatewayHealthy(st, gws[i].name) THEN gws[i]
    ELSE firstHealthyFrom(gws, st, i + 1)

\* A variant of GetHealthyGateway that does not try the default gateway
\* before it looks for any healthy one.
GetHealthyGateway_DefaultLast(gws, st, preferredGateway) ==
    IF preferredGateway # "" /\ IsGatewayHealthy(st, preferredGateway)
    THEN FindGatewayByName(gws, preferredGateway)
    ELSE IF firstHealthyFrom(gws, st, 1) # NilGateway
    THEN firstHealthyFrom(gws, st, 1)
    ELSE GetDefaultGateway(gws)

GetHealthyGateway(gws, st, preferredGateway) ==
    IF preferredGateway # "" /\ IsGatewayHealthy(st, preferredGateway)
    THEN FindGatewayByName(gws, preferredGateway)
    ELSE IF /\ GetDefaultGateway(gws) # NilGateway
            /\ IsGatewayHealthy(st, GetDefaultGateway(gws).name)
    THEN GetDefaultGateway(gws)
    ELSE IF firstHealthyFrom(gws, st, 1) # NilGateway
    THEN firstHealthyFrom(gws, st, 1)
    ELSE GetDefaultGateway(gws)

\* Whether GetHealthyGateway reaches its last step without a default
\* gateway: the log line there reads defaultGW.IP through a nil pointer.
GetHealthyGatewayPanics(gws, st, preferredGateway) ==
    /\ ~(preferredGateway # "" /\ IsGatewayHealthy(st, preferredGateway))
    /\ GetDefaultGateway(gws) = NilGateway
    /\ firstHealthyFrom(gws, st, 1) = NilGateway

\* A step of gateway selection alone.
GatewayOnly ==
    UNCHANGED <<poolVars, serverVars, reloadVars, bindingVars, configVars, scannerVars,
                stepVars, lockVars, raceVars, routerVars, walkVars, sweepVars,
                engineVars>>

\* A probe round: checkAllGateways stores one result for every gateway.
\* The names the configuration does not have keep the value they had.
checkAllGateways ==
    /\ \E results \in [{gateways[i].name : i \in DOMAIN gateways} -> BOOLEAN] :
           status' = [name \in DOMAIN status \cup DOMAIN results |->
                         IF name \in DOMAIN results THEN results[name]
                                                    ELSE status[name]]
    /\ probed' = TRUE
    /\ picked' = NoPick
    /\ UNCHANGED <<gateways, apiStatus>>
    /\ GatewayOnly

\* A handler asks for a gateway (selectGateway).
selectGateway(preferredGateway) ==
    /\ picked' = [preferred |-> preferredGateway,
                  gateway |-> GetHealthyGateway(gateways, status, preferredGateway),
                  panic |-> GetHealthyGatewayPanics(gateways, status, preferredGateway)]
    /\ UNCHANGED <<gateways, status, probed, apiStatus, checkerVars>>
    /\ GatewayOnly

GatewayInit ==
    /\ ServerAtRest /\ ReloadAtRest /\ OthersAtRest
    /\ config = <<>>
    /\ leases = EmptyMap
    /\ macToIP = EmptyMap
    /\ conflictIPs = EmptyMap
    /\ now = 0
    /\ ret = NoRet
    /\ gateways \in GatewayConfigs
    /\ status = NewHealthChecker(gateways)
    /\ probed = FALSE
    /\ picked = NoPick
    /\ apiStatus = 0

GatewayNext ==
    \/ checkAllGateways /\ UNCHANGED checkerVars
    \/ \E preferred \in {""} \cup GatewayNames \cup {UnknownGateway} :
          selectGateway(preferred)

GatewaySpec == GatewayInit /\ [][GatewayNext]_vars

-----------------------------------------------------------------------------
(* Properties of gateway selection *)

\* The status map calls the name healthy.
Healthy(name) == name \in DOMAIN status /\ status[name]

ConfiguredNames == {gateways[i].name : i \in DOMAIN gateways}
DefaultGateway == gateways[CHOOSE i \in DOMAIN gateways : gateways[i].isDefault]
HealthyPositions == {i \in DOMAIN gateways : Healthy(gateways[i].name)}

\* The four-step rule for a preferred name.
RuleChoice(preferred) ==
    IF preferred # "" /\ Healthy(preferred)
    THEN gateways[CHOOSE i \in DOMAIN gateways : gateways[i].name = preferred]
    ELSE IF Healthy(DefaultGateway.name) THEN DefaultGateway
    ELSE IF HealthyPositions # {}
    THEN gateways[CHOOSE i \in HealthyPositions : \A j \in HealthyPositions : i <= j]
    ELSE DefaultGateway

-----------------------------------------------------------------------------
(* The gateway routes of the API (package api, handleAddGateway,            *)
(* handleUpdateGateway, handleDeleteGateway). main hands one *config.Config *)
(* to dhcp.NewServer, which hands it to gateway.NewHealthChecker, and to    *)
(* api.NewAPIServer: api.config.Gateways and hc.config.Gateways are the     *)
(* same slice, so what a route writes the checker reads. No gateway route   *)
(* calls reloadCallback.                                                    *)

\* Texts a request can carry as the gateway's address: the address of the
\* name, the address of "g1", and a text net.ParseIP refuses.
RequestGatewayIPs(name) == {GatewayIP(name), GatewayIP("g1"), BadIPText}

\* Gateways i..Len(gws) with is_default cleared, except gateway keep.
clearDefaults(gws, keep) ==
    [i \in DOMAIN gws |-> IF i = keep THEN gws[i]
                          ELSE [gws[i] EXCEPT !.isDefault = FALSE]]

\* The index of the first gateway with this name, 0 for none (gatewayIndex,
\* which the code starts at -1).
RECURSIVE gatewayIndexFrom(_, _, _)
gatewayIndexFrom(gws, name, i) ==
    IF i > Len(gws) THEN 0
    ELSE IF gws[i].name = name THEN i
    ELSE gatewayIndexFrom(gws, name, i + 1)

\* append(gws[:i], gws[i+1:]...)
removeAt(seq, i) == SubSeq(seq, 1, i - 1) \o SubSeq(seq, i + 1, Len(seq))

\* A step of a gateway route: it neither probes nor selects.
GatewayRoute ==
    /\ picked' = NoPick
    /\ UNCHANGED <<status, probed, checkerVars>>
    /\ GatewayOnly

\* A request refused before it changed anything.
refuseGateway(code) ==
    /\ apiStatus' = code
    /\ UNCHANGED gateways

\* POST /api/gateways. saved: whether SaveConfig wrote the file.
handleAddGateway(name, ip, isDefault, saved) ==
    /\ GatewayRoute
    /\ IF name = "" \/ ParseIP(ip) = NilIP
       THEN refuseGateway(400)
       ELSE IF \E i \in DOMAIN gateways :
                   gateways[i].name = name \/ gateways[i].ip = ip
       THEN refuseGateway(409)
       ELSE /\ gateways' =
                   Append(IF isDefault THEN clearDefaults(gateways, 0) ELSE gateways,
                          [name |-> name, ip |-> ip, isDefault |-> isDefault])
            /\ apiStatus' = IF saved THEN 201 ELSE 500

\* PUT /api/gateways.
handleUpdateGateway(oldName, name, ip, isDefault, saved) ==
    /\ GatewayRoute
    /\ IF oldName = "" \/ name = "" \/ ParseIP(ip) = NilIP
       THEN refuseGateway(400)
       ELSE IF gatewayIndexFrom(gateways, oldName, 1) = 0
       THEN refuseGateway(404)
       ELSE IF \E i \in DOMAIN gateways :
                   /\ i # gatewayIndexFrom(gateways, oldName, 1)
                   /\ gateways[i].name = name \/ gateways[i].ip = ip
       THEN refuseGateway(409)
       ELSE /\ gateways' =
                   [(IF isDefault
                     THEN clearDefaults(gateways, gatewayIndexFrom(gateways, oldName, 1))
                     ELSE gateways)
                    EXCEPT ![gatewayIndexFrom(gateways, oldName, 1)] =
                        [name |-> name, ip |-> ip, isDefault |-> isDefault]]
            /\ apiStatus' = IF saved THEN 200 ELSE 500

\* DELETE /api/gateways.
handleDeleteGateway(name, saved) ==
    /\ GatewayRoute
    /\ IF name = ""
       THEN refuseGateway(400)
       ELSE IF gatewayIndexFrom(gateways, name, 1) = 0
       THEN refuseGateway(404)
       ELSE IF Len(gateways) <= 1
       THEN refuseGateway(400)
       ELSE /\ gateways' =
                   (LET wasDefault == gateways[gatewayIndexFrom(gateways, name, 1)].isDefault
                        rest == removeAt(gateways, gatewayIndexFrom(gateways, name, 1))
                    IN  IF wasDefault /\ Len(rest) > 0
                        THEN [rest EXCEPT ![1].isDefault = TRUE]
                        ELSE rest)
            /\ apiStatus' = IF saved THEN 200 ELSE 500

\* The names a gateway request carries, the empty one included, and the
\* names a handler prefers.
ApiGatewayNames == {"g1", "g2"}
RequestGatewayNames == ApiGatewayNames \cup {""}

\* The engine starts on a configuration file LoadConfig accepted, with
\* gateways of these names.
GatewayApiInit ==
    /\ GatewayInit
    /\ \A i \in DOMAIN gateways : gateways[i].name \in ApiGatewayNames

GatewayApiNext ==
    \/ checkAllGateways /\ UNCHANGED checkerVars
    \/ \E preferred \in {""} \cup ApiGatewayNames \cup {UnknownGateway} :
          selectGateway(preferred)
    \/ \E name \in RequestGatewayNames, isDefault, saved \in BOOLEAN :
          \E ip \in RequestGatewayIPs(name) :
              handleAddGateway(name, ip, isDefault, saved)
    \/ \E oldName, name \in RequestGatewayNames, isDefault, saved \in BOOLEAN :
          \E ip \in RequestGatewayIPs(name) :
              handleUpdateGateway(oldName, name, ip, isDefault, saved)
    \/ \E name \in RequestGatewayNames, saved \in BOOLEAN :
          handleDeleteGateway(name, saved)

GatewayApiSpec == GatewayApiInit /\ [][GatewayApiNext]_vars

-----------------------------------------------------------------------------
(* Properties of gateway selection under the gateway routes *)

\* What Config.Validate asks of the gateways: a parsable address each, and
\* one default gateway, no more.
ValidGateways(gws) ==
    /\ \A i \in DOMAIN gws : ParseIP(gws[i].ip) # NilIP
    /\ Cardinality({i \in DOMAIN gws : gws[i].isDefault}) = 1

\* C21: graceful degradation. With a valid configuration, for every status
\* map (the one where every gateway is unhealthy included) and every
\* preferred name (empty, configured or unknown), the selection returns a
\* gateway of the configuration, never nil.
C21_GracefulDegradation ==
    (picked # NoPick /\ ValidGateways(gateways))
        => /\ ~picked.panic
           /\ picked.gateway \in {gateways[i] : i \in DOMAIN gateways}

\* C24: a successful add, update or delete of a gateway leaves exactly one
\* default gateway in a configuration that had exactly one.
C24_OneDefaultKept ==
    [][(/\ ValidGateways(gateways)
        /\ gateways' # gateways
        /\ apiStatus' \in {200, 201})
       => Cardinality({i \in DOMAIN gateways' : gateways'[i].isDefault}) = 1]_vars

-----------------------------------------------------------------------------
(* The probe loop (src/gateway/checker.go, HealthChecker.Start and Stop).   *)
(* hcLoop is the position of the goroutine that runs Start:                 *)
(*   "idle"      Start has not been called                                  *)
(*   "first"     in the call of checkAllGateways before the loop            *)
(*   "select"    at the select of the loop                                  *)
(*   "checking"  in the call of checkAllGateways a tick started             *)
(*   "returned"  Start has returned                                         *)

\* go s.healthChecker.Start(): the goroutine enters the first probe round.
Start ==
    /\ hcLoop = "idle"
    /\ hcLoop' = "first"
    /\ UNCHANGED <<cancelled, tick, gatewayVars>>
    /\ GatewayOnly

\* A probe round ends: every probe is bounded by HealthCheck.Timeout (the
\* ping probes by hc.ctx as well), and the round stores its results.
probeRound ==
    /\ hcLoop \in {"first", "checking"}
    /\ checkAllGateways
    /\ hcLoop' = "select"
    /\ UNCHANGED <<cancelled, tick>>

\* The ticker sends on ticker.C, a channel of capacity one; a tick that
\* finds the channel full is dropped. time.NewTicker runs after the first
\* round, ticker.Stop when Start returns.
tickerFires ==
    /\ hcLoop \in {"select", "checking"}
    /\ ~tick
    /\ tick' = TRUE
    /\ UNCHANGED <<hcLoop, cancelled, gatewayVars>>
    /\ GatewayOnly

\* case <-ticker.C
loopTicks ==
    /\ hcLoop = "select"
    /\ tick
    /\ tick' = FALSE
    /\ hcLoop' = "checking"
    /\ UNCHANGED <<cancelled, gatewayVars>>
    /\ GatewayOnly

\* A variant of the loop without the case <-hc.ctx.Done().
loopReturns_Never ==
    /\ hcLoop = "select"
    /\ cancelled
    /\ hcLoop' = "select"
    /\ UNCHANGED <<cancelled, tick, gatewayVars>>
    /\ GatewayOnly

\* case <-hc.ctx.Done(): Start returns.
loopReturns ==
    /\ hcLoop = "select"
    /\ cancelled
    /\ hcLoop' = "returned"
    /\ UNCHANGED <<cancelled, tick, gatewayVars>>
    /\ GatewayOnly

\* Stop: hc.cancel().
Stop ==
    /\ cancelled' = TRUE
    /\ UNCHANGED <<hcLoop, tick, gatewayVars>>
    /\ GatewayOnly

CheckerInit ==
    /\ GatewayInit
    /\ \A i \in DOMAIN gateways : gateways[i].name \in ApiGatewayNames

CheckerNext ==
    \/ Start
    \/ probeRound
    \/ tickerFires
    \/ loopTicks
    \/ loopReturns
    \/ Stop
    \/ \E preferred \in {""} \cup ApiGatewayNames \cup {UnknownGateway} :
          selectGateway(preferred)

\* A probe round that has started ends. When a select finds several cases
\* ready the Go runtime picks one of them at random, so a loop that comes
\* back to the select again and again with hc.ctx done takes that case in
\* the end: strong fairness for loopReturns.
CheckerSpec ==
    /\ CheckerInit
    /\ [][CheckerNext]_vars
    /\ WF_vars(probeRound)
    /\ SF_vars(loopReturns)

-----------------------------------------------------------------------------
(* Properties of the probe loop *)

\* C22: once Stop has been called, the probe loop Start runs returns in the
\* end; after it has returned the status map does not change any more, and
\* a selection made then is answered from that map.
C22_StopEndsLoop ==
    /\ (cancelled /\ hcLoop # "idle") ~> (hcLoop = "returned")
    /\ [][hcLoop = "returned" => (hcLoop' = "returned" /\ status' = status)]_vars
    /\ [](hcLoop = "returned" /\ picked # NoPick
            => picked.gateway = GetHealthyGateway(gateways, status, picked.preferred))

\* C22's case: Stop was called during a probe round a tick had started, the
\* loop has returned, and a handler has selected a gateway since the last
\* round: the round found the default gateway unhealthy.
C22_Witness ==
    /\ cancelled
    /\ hcLoop = "returned"
    /\ probed
    /\ picked # NoPick
    /\ ~IsGatewayHealthy(status, GetDefaultGateway(gateways).name)

-----------------------------------------------------------------------------
(* The history ring (src/dhcp/server.go, Server.addHistory) on its own:     *)
(* histories of every length around maxHistory, and appends to them.        *)

\* A specification appends at most this many records.
MaxAppends == 4

\* The history after n records: the sample records of NewServer, then the
\* records of packets, numbered in the address so that any two differ.
HistoryOfLen(n) ==
    [i \in 1..n |-> IF i <= Len(sampleRecords) THEN sampleRecords[i]
                    ELSE HistoryRecord(i, "aa:01", "h1", "DISCOVER")]

\* The lengths a specification starts from: a new server, and a ring that
\* is two records, one record and no record short of full.
HistoryLens == {Len(sampleRecords), maxHistory - 2, maxHistory - 1, maxHistory}

\* The records a specification appends.
NewRecords == {HistoryRecord(startIP, "aa:01", "h1", "DISCOVER"),
               HistoryRecord(startIP, "aa:02", "h1", "RELEASE")}

\* A handler calls addHistory.
appendRecord(record) ==
    /\ packets < MaxAppends
    /\ packets' = packets + 1
    /\ history' = addHistory(history, record)
    /\ UNCHANGED <<allowAnyServerIP, packet, response>>
    /\ UNCHANGED <<poolVars, reloadVars, gatewayVars, otherVars>>

HistoryInit ==
    /\ ReloadAtRest /\ GatewayAtRest /\ OthersAtRest
    /\ config = <<>>
    /\ leases = EmptyMap
    /\ macToIP = EmptyMap
    /\ conflictIPs = EmptyMap
    /\ now = 0
    /\ ret = NoRet
    /\ allowAnyServerIP = FALSE
    /\ packet = NoPacket
    /\ response = NoResponse
    /\ packets = 0
    /\ history \in {HistoryOfLen(n) : n \in HistoryLens}

HistoryNext == \E record \in NewRecords : appendRecord(record)

HistorySpec == HistoryInit /\ [][HistoryNext]_vars

\* C23: the ring never holds more than maxHistory (1,000) records; an append
\* to a ring that is not full keeps every record and puts the new one last;
\* an append to a full ring drops the oldest record, keeps the others in
\* their order and puts the new one last.
C23_RingBounded ==
    /\ [](Len(history) <= maxHistory)
    /\ [][history' # history =>
            /\ history'[Len(history')] \in NewRecords
            /\ IF Len(history) < maxHistory
               THEN SubSeq(history', 1, Len(history)) = history
               ELSE /\ Len(history') = maxHistory
                    /\ SubSeq(history', 1, maxHistory - 1) = Tail(history)]_vars

\* C23's case: records were appended to a full ring, and the oldest records
\* are gone.
C23_Witness ==
    /\ Len(history) = maxHistory
    /\ packets >= 2
    /\ history[maxHistory] \in NewRecords
    /\ history[maxHistory - 1] \in NewRecords
    /\ history[1] = HistoryOfLen(maxHistory)[3]

-----------------------------------------------------------------------------
(* The reservation routes of the API (package api, handleAddStaticBinding,  *)
(* handleUpdateStaticBinding, handleConvertLeaseToStatic). net/http serves  *)
(* every request in a goroutine of its own and APIServer has no lock, so a  *)
(* handler is two steps: the checks, which read api.config.Bindings, and    *)
(* the write with SaveConfig and the start of the reload goroutine.         *)

Aliases == {"a1", "a2"}
RequestMACs == {"aa:01", "aa:02", "zz"}
RequestBindingIPs == {startIP, startIP + 1, BadIPText}

\* A config.MACBinding with its alias and gateway.
Reservation(alias, mac, ip, gateway, hostname) ==
    [alias |-> alias, mac |-> mac, ip |-> ip, gateway |-> gateway,
     hostname |-> hostname]

\* The three loops of a handler over api.config.Bindings.
aliasExists(bs, alias) == \E i \in DOMAIN bs : bs[i].alias = alias
macBound(bs, mac) == \E i \in DOMAIN bs : bs[i].mac = mac
ipBound(bs, ip) == \E i \in DOMAIN bs : bs[i].ip = ip

\* The index of the first reservation with this alias, 0 for none.
RECURSIVE bindingIndexFrom(_, _, _)
bindingIndexFrom(bs, alias, i) ==
    IF i > Len(bs) THEN 0
    ELSE IF bs[i].alias = alias THEN i
    ELSE bindingIndexFrom(bs, alias, i + 1)

\* A step of the reservation routes.
BindingOnly ==
    UNCHANGED <<config, conflictIPs, now, ret, serverVars, reloadVars,
                gatewayVars, checkerVars, configVars, scannerVars, stepVars,
                lockVars, raceVars, routerVars, walkVars, sweepVars,
                engineVars>>

\* The handler answers with this status and returns.
answer(q, r, code) ==
    requests' = [requests EXCEPT ![q] = [r EXCEPT !.pc = "done", !.status = code]]

\* The handler has passed its checks.
passed(q, r) ==
    requests' = [requests EXCEPT ![q] = [r EXCEPT !.pc = "checked"]]

\* What handleAddStaticBinding and handleUpdateStaticBinding refuse of a
\* MAC and an address: the empty text.
malformed(mac, ip) == mac = "" \/ ip = EmptyIPText

\* handleAddStaticBinding up to the last check.
checkAdd(q, alias, mac, ip) ==
    /\ requests[q].pc = "idle"
    /\ LET r == [NoRequest EXCEPT !.kind = "add", !.alias = alias, !.mac = mac,
                                  !.ip = ip, !.seen = apiBindings]
       IN  IF alias = "" \/ malformed(mac, ip)
           THEN answer(q, r, 400)
           ELSE IF \/ aliasExists(apiBindings, alias)
                   \/ macBound(apiBindings, mac)
                   \/ ipBound(apiBindings, ip)
           THEN answer(q, r, 409)
           ELSE passed(q, r)
    /\ UNCHANGED <<apiBindings, file, reloads, leases, macToIP>>
    /\ BindingOnly

\* handleUpdateStaticBinding up to the last check.
checkUpdate(q, oldAlias, alias, mac, ip) ==
    /\ requests[q].pc = "idle"
    /\ LET index == bindingIndexFrom(apiBindings, oldAlias, 1)
           r == [NoRequest EXCEPT !.kind = "update", !.oldAlias = oldAlias,
                                  !.alias = alias, !.mac = mac, !.ip = ip,
                                  !.index = index, !.seen = apiBindings]
       IN  IF oldAlias = "" \/ alias = "" \/ malformed(mac, ip)
           THEN answer(q, r, 400)
           ELSE IF index = 0
           THEN answer(q, r, 404)
           ELSE IF \/ alias # oldAlias /\ aliasExists(apiBindings, alias)
                   \/ mac # apiBindings[index].mac /\ macBound(apiBindings, mac)
                   \/ ip # apiBindings[index].ip /\ ipBound(apiBindings, ip)
           THEN answer(q, r, 409)
           ELSE passed(q, r)
    /\ UNCHANGED <<apiBindings, file, reloads, leases, macToIP>>
    /\ BindingOnly

\* handleConvertLeaseToStatic up to the last check: the lease is the one
\* GetLeaseByMAC returns, its address the new reservation's.
checkConvert(q, mac, alias) ==
    /\ requests[q].pc = "idle"
    /\ LET found == mac \in DOMAIN macToIP /\ macToIP[mac] \in DOMAIN leases
           r == [NoRequest EXCEPT !.kind = "convert", !.alias = alias,
                                  !.mac = mac, !.seen = apiBindings,
                                  !.ip = IF found THEN macToIP[mac] ELSE EmptyIPText]
       IN  IF mac = "" \/ alias = ""
           THEN answer(q, r, 400)
           ELSE IF ~found
           THEN answer(q, r, 404)
           ELSE IF leases[macToIP[mac]].isStatic
           THEN answer(q, r, 400)
           ELSE IF \/ aliasExists(apiBindings, alias)
                   \/ macBound(apiBindings, mac)
                   \/ ipBound(apiBindings, macToIP[mac])
           THEN answer(q, r, 409)
           ELSE passed(q, r)
    /\ UNCHANGED <<apiBindings, file, reloads, leases, macToIP>>
    /\ BindingOnly

\* SaveConfig, the start of the reload goroutine and the answer. saved:
\* whether SaveConfig wrote the file.
saveAndReload(q, saved, code) ==
    /\ file' = IF saved THEN apiBindings' ELSE file
    /\ reloads' = IF saved THEN reloads + 1 ELSE reloads
    /\ answer(q, requests[q], IF saved THEN code ELSE 500)

\* The rest of handleAddStaticBinding and of handleConvertLeaseToStatic:
\* append to api.config.Bindings. The append reads the slice and writes it
\* back with no lock: it extends the slice as it is now, or the slice as
\* the handler read it.
commitAppend(q, saved) ==
    /\ requests[q].pc = "checked"
    /\ requests[q].kind \in {"add", "convert"}
    /\ \E base \in {apiBindings, requests[q].seen} :
           apiBindings' = Append(base, Reservation(requests[q].alias, requests[q].mac,
                                                requests[q].ip, "", "h1"))
    /\ saveAndReload(q, saved, 201)
    /\ UNCHANGED <<leases, macToIP>>
    /\ BindingOnly

\* The rest of handleUpdateStaticBinding: api.config.Bindings[bindingIndex]
\* is written.
commitUpdate(q, saved) ==
    /\ requests[q].pc = "checked"
    /\ requests[q].kind = "update"
    /\ requests[q].index \in DOMAIN apiBindings
    /\ apiBindings' = [apiBindings EXCEPT ![requests[q].index] =
                       Reservation(requests[q].alias, requests[q].mac,
                                   requests[q].ip, "", "h1")]
    /\ saveAndReload(q, saved, 200)
    /\ UNCHANGED <<leases, macToIP>>
    /\ BindingOnly

\* A client gets a lease: the DISCOVER before a conversion.
clientDiscovers(m) ==
    /\ RequestIP(m, NilIP, "h1")
    /\ UNCHANGED <<serverVars, reloadVars, gatewayVars, otherVars>>

\* The configuration file the server started on: no reservation, or one.
BindingApiInit ==
    /\ ServerAtRest /\ ReloadAtRest /\ GatewayAtRest /\ CheckerAtRest /\ ConfigAtRest
    /\ ScannerAtRest /\ StepAtRest /\ LockAtRest /\ RaceAtRest /\ RouterAtRest
    /\ WalkAtRest /\ SweepAtRest /\ EngineAtRest
    /\ apiBindings \in {<<>>, <<Reservation("a1", "aa:01", startIP, "", "h0")>>}
    /\ config = [i \in DOMAIN apiBindings |->
                    [mac |-> apiBindings[i].mac, ip |-> apiBindings[i].ip,
                     hostname |-> apiBindings[i].hostname]]
    /\ leases = NewIPPool(config).leases
    /\ macToIP = NewIPPool(config).macToIP
    /\ conflictIPs = EmptyMap
    /\ now = 0
    /\ ret = NoRet
    /\ file = apiBindings
    /\ requests = [q \in Clients |-> NoRequest]
    /\ reloads = 0

BindingApiNext ==
    \/ \E q \in Clients, alias \in Aliases \cup {""}, mac \in RequestMACs,
          ip \in RequestBindingIPs : checkAdd(q, alias, mac, ip)
    \/ \E q \in Clients, oldAlias, alias \in Aliases, mac \in RequestMACs,
          ip \in RequestBindingIPs : checkUpdate(q, oldAlias, alias, mac, ip)
    \/ \E q \in Clients, mac \in RequestMACs, alias \in Aliases :
          checkConvert(q, mac, alias)
    \/ \E q \in Clients, saved \in BOOLEAN : commitAppend(q, saved)
    \/ \E q \in Clients, saved \in BOOLEAN : commitUpdate(q, saved)
    \/ clientDiscovers("aa:02")

BindingApiSpec == BindingApiInit /\ [][BindingApiNext]_vars

-----------------------------------------------------------------------------
(* Properties of the reservation routes *)

\* No two reservations share an alias, a MAC or an address.
Distinct(bs) ==
    \A i, j \in DOMAIN bs :
        i # j => /\ bs[i].alias # bs[j].alias
                 /\ bs[i].mac # bs[j].mac
                 /\ bs[i].ip # bs[j].ip

\* C25: under every interleaving of reservation add, update and convert
\* requests the reservations of the configuration keep pairwise distinct
\* aliases, MACs and addresses, and a request answered 409 leaves the
\* configuration as it was.
C25_ReservationsDistinct ==
    /\ [](Distinct(apiBindings))
    /\ [][\A q \in Clients :
            (requests[q].pc = "idle" /\ requests'[q].status = 409)
                => UNCHANGED <<apiBindings, file>>]_vars

\* A MAC net.ParseMAC refuses, or an address net.ParseIP refuses.
SyntacticallyInvalid(mac, ip) == ParseMAC(mac) = BadMAC \/ ParseIP(ip) = NilIP

\* C26: an add or update whose MAC or address is syntactically invalid is
\* refused at once: it never passes the checks, so the configuration in
\* memory and in the file stay as they were and no reload is started.
C26_MalformedRefused ==
    \A q \in Clients :
        (/\ requests[q].kind \in {"add", "update"}
         /\ SyntacticallyInvalid(requests[q].mac, requests[q].ip))
            => /\ requests[q].pc # "checked"
               /\ requests[q].status \notin {200, 201, 500}

-----------------------------------------------------------------------------
(* The configuration and its file (package config: SaveConfig, LoadConfig,  *)
(* the yaml tags of Gateway, MACBinding and DeviceInfo) with the route that *)
(* sets a device's gateway (package api, handleDeviceGateway).              *)

\* A configuration holds at most this many devices.
MaxDevices == 2

\* A DeviceInfo in memory. Model, Description and Owner are carried like
\* DeviceType; FirstSeen, LastSeen, StaticIP and HasStaticIP are filled in
\* at run time like IsActive.
Device(mac, deviceType, hostname, gateway, isActive) ==
    [mac |-> mac, deviceType |-> deviceType, hostname |-> hostname,
     gateway |-> gateway, isActive |-> isActive]

\* yaml.Marshal: every field under the key its yaml tag names; a field
\* tagged yaml:"-" is not written.
MarshalGateway(gw) == [name |-> gw.name, ip |-> gw.ip, is_default |-> gw.isDefault]
MarshalBinding(b) ==
    [alias |-> b.alias, mac |-> b.mac, ip |-> b.ip, gateway |-> b.gateway,
     hostname |-> b.hostname]
MarshalDevice(d) == [mac |-> d.mac, device_type |-> d.deviceType, hostname |-> d.hostname]
Marshal(c) ==
    [gateways |-> [i \in DOMAIN c.gateways |-> MarshalGateway(c.gateways[i])],
     bindings |-> [i \in DOMAIN c.bindings |-> MarshalBinding(c.bindings[i])],
     devices |-> [i \in DOMAIN c.devices |-> MarshalDevice(c.devices[i])]]

\* yaml.Unmarshal into a new Config: a field the document has no key for
\* keeps its zero value.
UnmarshalGateway(y) == [name |-> y.name, ip |-> y.ip, isDefault |-> y.is_default]
UnmarshalBinding(y) == Reservation(y.alias, y.mac, y.ip, y.gateway, y.hostname)
UnmarshalDevice(y) == Device(y.mac, y.device_type, y.hostname, "", FALSE)
Unmarshal(y) ==
    [gateways |-> [i \in DOMAIN y.gateways |-> UnmarshalGateway(y.gateways[i])],
     bindings |-> [i \in DOMAIN y.bindings |-> UnmarshalBinding(y.bindings[i])],
     devices |-> [i \in DOMAIN y.devices |-> UnmarshalDevice(y.devices[i])]]

\* Config.Validate on a whole configuration.
ValidConfig(c) == ValidGateways(c.gateways) /\ Validate(c.bindings)

\* The configuration files a server starts on: two gateways, the first or
\* the second the default, one reservation, and up to MaxDevices devices.
YamlDevices ==
    UNION {{d \in [1..n -> {[mac |-> m, device_type |-> "Linux", hostname |-> "h1"] :
                               m \in MACs}] :
               \A i, j \in DOMAIN d : i # j => d[i].mac # d[j].mac}
           : n \in 0..MaxDevices}
YamlFiles ==
    {[gateways |-> [i \in DOMAIN g |-> MarshalGateway(g[i])], bindings |-> b,
      devices |-> d] :
        g \in {x \in GatewayConfigs :
                  Len(x) = 2 /\ x[1].name = "g1" /\ x[2].name = "g2"},
        b \in {<<MarshalBinding(Reservation("a1", "aa:01", startIP, "g1", "h0"))>>},
        d \in YamlDevices}

\* A step of the configuration and its file.
ConfigOnly ==
    UNCHANGED <<poolVars, serverVars, reloadVars, gatewayVars, checkerVars,
                bindingVars, scannerVars, stepVars, lockVars, raceVars,
                routerVars, walkVars, sweepVars, engineVars>>

\* SaveConfig: the file holds the document of the configuration in memory.
SaveConfig ==
    /\ yamlFile' = [written |-> TRUE, data |-> Marshal(memConfig), model |-> memConfig]
    /\ UNCHANGED <<memConfig, loadedConfig>>
    /\ ConfigOnly

\* LoadConfig: read the file, unmarshal, validate.
LoadConfig ==
    /\ yamlFile.written
    /\ loadedConfig' =
           IF ValidConfig(Unmarshal(yamlFile.data))
           THEN [state |-> "loaded", config |-> Unmarshal(yamlFile.data),
                 model |-> yamlFile.model]
           ELSE [state |-> "error", config |-> EmptyConfig, model |-> yamlFile.model]
    /\ UNCHANGED <<memConfig, yamlFile>>
    /\ ConfigOnly

\* The index of the first device with this MAC, 0 for none (FindDeviceByMAC).
RECURSIVE deviceIndexFrom(_, _, _)
deviceIndexFrom(ds, mac, i) ==
    IF i > Len(ds) THEN 0
    ELSE IF ds[i].mac = mac THEN i
    ELSE deviceIndexFrom(ds, mac, i + 1)

\* PUT /api/devices/gateway: set the gateway of a device, adding the device
\* when the configuration has none with this MAC, and save. saved: whether
\* SaveConfig wrote the file.
handleDeviceGateway(mac, gateway, saved) ==
    /\ mac # ""
    /\ gateway # "" => \E i \in DOMAIN memConfig.gateways :
                           memConfig.gateways[i].name = gateway
    /\ deviceIndexFrom(memConfig.devices, mac, 1) = 0 =>
           Len(memConfig.devices) < MaxDevices
    /\ memConfig' =
           [memConfig EXCEPT !.devices =
               IF deviceIndexFrom(memConfig.devices, mac, 1) # 0
               THEN [memConfig.devices EXCEPT
                        ![deviceIndexFrom(memConfig.devices, mac, 1)].gateway = gateway]
               ELSE Append(memConfig.devices, Device(mac, "", "", gateway, FALSE))]
    /\ yamlFile' = IF saved
                   THEN [written |-> TRUE, data |-> Marshal(memConfig'),
                         model |-> memConfig']
                   ELSE yamlFile
    /\ UNCHANGED loadedConfig
    /\ ConfigOnly

\* A request handleDeviceGateway refuses: no MAC, or a gateway the
\* configuration does not have.
handleDeviceGatewayRefused(mac, gateway) ==
    /\ \/ mac = ""
       \/ /\ gateway # ""
          /\ \A i \in DOMAIN memConfig.gateways : memConfig.gateways[i].name # gateway
    /\ UNCHANGED configVars
    /\ ConfigOnly

\* A device is seen on the network: the scanner and the engine mark it.
deviceSeen(i) ==
    /\ i \in DOMAIN memConfig.devices
    /\ ~memConfig.devices[i].isActive
    /\ memConfig' = [memConfig EXCEPT !.devices[i].isActive = TRUE]
    /\ UNCHANGED <<yamlFile, loadedConfig>>
    /\ ConfigOnly

\* main: LoadConfig of the file the server starts on.
RoundTripInit ==
    /\ ServerAtRest /\ ReloadAtRest /\ GatewayAtRest /\ CheckerAtRest /\ BindingAtRest
    /\ ScannerAtRest /\ StepAtRest /\ LockAtRest /\ RaceAtRest /\ RouterAtRest
    /\ WalkAtRest /\ SweepAtRest /\ EngineAtRest
    /\ config = <<>>
    /\ leases = EmptyMap
    /\ macToIP = EmptyMap
    /\ conflictIPs = EmptyMap
    /\ now = 0
    /\ ret = NoRet
    /\ \E y \in YamlFiles :
           /\ memConfig = Unmarshal(y)
           /\ yamlFile = [written |-> TRUE, data |-> y, model |-> Unmarshal(y)]
    /\ loadedConfig = NoLoad

RoundTripNext ==
    \/ SaveConfig
    \/ LoadConfig
    \/ \E mac \in MACs, gateway \in {"", "g1"}, saved \in BOOLEAN :
          handleDeviceGateway(mac, gateway, saved)
    \/ \E mac \in MACs \cup {""}, gateway \in {"", UnknownGateway} :
          handleDeviceGatewayRefused(mac, gateway)
    \/ \E i \in 1..MaxDevices : deviceSeen(i)

RoundTripSpec == RoundTripInit /\ [][RoundTripNext]_vars

-----------------------------------------------------------------------------
(* Properties of the configuration file *)

\* A configuration without the fields that are derived at run time.
NonDerived(c) ==
    [gateways |-> c.gateways, bindings |-> c.bindings,
     devices |-> [i \in DOMAIN c.devices |->
                     [mac |-> c.devices[i].mac,
                      deviceType |-> c.devices[i].deviceType,
                      hostname |-> c.devices[i].hostname,
                      gateway |-> c.devices[i].gateway]]]

\* C27: save then load is a round trip. The configuration LoadConfig
\* returns equals the configuration the file was saved from on every field
\* that is not derived, the gateway of each device included.
C27_SaveLoadRoundTrip ==
    loadedConfig.state # "none"
        => /\ loadedConfig.state = "loaded"
           /\ NonDerived(loadedConfig.config) = NonDerived(loadedConfig.model)

-----------------------------------------------------------------------------
(* The network scanner (package dhcp, NetworkScanner: Start, Stop,          *)
(* scanLoop, performScan, scanNetworkWithProgress, GetStatus).              *)
(* scanPc[g] is the position of a scanning goroutine:                       *)
(*   "none"    not started                                                  *)
(*   "select"  scanLoop at its select                                       *)
(*   "enter"   performScan before its first Lock (the IsRunning check)      *)
(*   "reset"   performScan before the Lock that resets the counters         *)
(*   "probe"   a probe goroutine of scanNetworkWithProgress before the Lock *)
(*             that counts its address                                      *)
(*   "finish"  performScan before the Lock that stores the final status     *)
(*   "exited"  the goroutine has returned                                   *)
(* A Lock, the update under it and the Unlock are one step, taken when the  *)
(* mutex is free. Stop alone keeps the mutex over a wait.                   *)

\* A step of the scanner.
ScannerOnly ==
    UNCHANGED <<poolVars, serverVars, reloadVars, gatewayVars, checkerVars,
                bindingVars, configVars, stepVars, lockVars, raceVars,
                routerVars, walkVars, sweepVars, engineVars>>

\* Start: under the mutex, mark the scanner running and start the two
\* goroutines.
scannerStart ==
    /\ scanMutex = "free"
    /\ ~isRunning
    /\ \A g \in Scans : scanPc[g] = "none"
    /\ isRunning' = TRUE
    /\ scanPc' = [g \in Scans |-> IF g = "first" THEN "enter" ELSE "select"]
    /\ UNCHANGED <<scanMutex, stopChan, stopPc, queryPc, scanTick>>
    /\ ScannerOnly

\* The ticker of scanLoop sends a tick.
scanTickerFires ==
    /\ scanPc["loop"] \notin {"none", "exited"}
    /\ ~scanTick
    /\ scanTick' = TRUE
    /\ UNCHANGED <<scanMutex, isRunning, stopChan, scanPc, stopPc, queryPc>>
    /\ ScannerOnly

\* scanLoop, case <-ticker.C: call performScan.
scanLoopTicks ==
    /\ scanPc["loop"] = "select"
    /\ scanTick
    /\ scanTick' = FALSE
    /\ scanPc' = [scanPc EXCEPT !["loop"] = "enter"]
    /\ UNCHANGED <<scanMutex, isRunning, stopChan, stopPc, queryPc>>
    /\ ScannerOnly

\* scanLoop, case <-scanner.stopChan: return, wg.Done().
scanLoopExits ==
    /\ scanPc["loop"] = "select"
    /\ stopChan = "closed"
    /\ scanPc' = [scanPc EXCEPT !["loop"] = "exited"]
    /\ UNCHANGED <<scanMutex, isRunning, stopChan, stopPc, queryPc, scanTick>>
    /\ ScannerOnly

\* Where a scanning goroutine goes when performScan returns.
afterScan(g) == IF g = "loop" THEN "select" ELSE "exited"

\* performScan and the probes of scanNetworkWithProgress: the next Lock of
\* scanMutex, the update and the Unlock. The first one returns when the
\* scanner is not running.
scanStep(g) ==
    /\ scanMutex = "free"
    /\ scanPc[g] \in {"enter", "reset", "probe", "finish"}
    /\ scanPc' = [scanPc EXCEPT ![g] =
                     CASE scanPc[g] = "enter" ->
                              IF isRunning THEN "reset" ELSE afterScan(g)
                       [] scanPc[g] = "reset" -> "probe"
                       [] scanPc[g] = "probe" -> "finish"
                       [] scanPc[g] = "finish" -> afterScan(g)]
    /\ UNCHANGED <<scanMutex, isRunning, stopChan, stopPc, queryPc, scanTick>>
    /\ ScannerOnly

\* Stop is called.
stopCalled ==
    /\ stopPc = "idle"
    /\ stopPc' = "locking"
    /\ UNCHANGED <<scanMutex, isRunning, stopChan, scanPc, queryPc, scanTick>>
    /\ ScannerOnly

\* Stop takes the mutex. A scanner that is not running: Stop returns.
\* Otherwise it clears IsRunning, closes stopChan and calls wg.Wait() with
\* the mutex held (the Unlock is deferred).
stopLocks ==
    /\ stopPc = "locking"
    /\ scanMutex = "free"
    /\ IF ~isRunning
       THEN /\ stopPc' = "returned"
            /\ UNCHANGED <<scanMutex, isRunning, stopChan>>
       ELSE /\ scanMutex' = "stop"
            /\ isRunning' = FALSE
            /\ stopChan' = "closed"
            /\ stopPc' = "waiting"
    /\ UNCHANGED <<scanPc, queryPc, scanTick>>
    /\ ScannerOnly

\* wg.Wait() returns once scanLoop has called wg.Done(): Stop makes a new
\* stopChan, returns and unlocks.
stopReturns ==
    /\ stopPc = "waiting"
    /\ scanPc["loop"] = "exited"
    /\ stopChan' = "open"
    /\ scanMutex' = "free"
    /\ stopPc' = "returned"
    /\ UNCHANGED <<isRunning, scanPc, queryPc, scanTick>>
    /\ ScannerOnly

\* GetStatus is called.
queryCalled ==
    /\ queryPc = "idle"
    /\ queryPc' = "locking"
    /\ UNCHANGED <<scanMutex, isRunning, stopChan, scanPc, stopPc, scanTick>>
    /\ ScannerOnly

\* GetStatus: RLock, copy the status, RUnlock.
queryAnswers ==
    /\ queryPc = "locking"
    /\ scanMutex = "free"
    /\ queryPc' = "idle"
    /\ UNCHANGED <<scanMutex, isRunning, stopChan, scanPc, stopPc, scanTick>>
    /\ ScannerOnly

ScannerInit ==
    /\ ServerAtRest /\ ReloadAtRest /\ GatewayAtRest
    /\ CheckerAtRest /\ BindingAtRest /\ ConfigAtRest /\ ScannerAtRest
    /\ StepAtRest /\ LockAtRest /\ RaceAtRest /\ RouterAtRest /\ WalkAtRest
    /\ SweepAtRest /\ EngineAtRest
    /\ config = <<>>
    /\ leases = EmptyMap
    /\ macToIP = EmptyMap
    /\ conflictIPs = EmptyMap
    /\ now = 0
    /\ ret = NoRet

ScannerNext ==
    \/ scannerStart
    \/ scanTickerFires
    \/ scanLoopTicks
    \/ scanLoopExits
    \/ \E g \in Scans : scanStep(g)
    \/ stopCalled
    \/ stopLocks
    \/ stopReturns
    \/ queryCalled
    \/ queryAnswers

\* Every goroutine that can take a step takes one in the end, and a
\* scanLoop at its select with stopChan closed returns in the end (the
\* runtime picks at random among the ready cases of a select).
ScannerSpec ==
    /\ ScannerInit
    /\ [][ScannerNext]_vars
    /\ WF_vars(stopLocks) /\ WF_vars(stopReturns)
    /\ WF_vars(\E g \in Scans : scanStep(g))
    /\ WF_vars(queryAnswers)
    /\ SF_vars(scanLoopExits)

-----------------------------------------------------------------------------
(* Properties of the scanner *)

\* C28: stopping the scanner always completes. A Stop that was called
\* returns in the end with the scan loop exited, also when a scan a tick
\* started is running, and a GetStatus that was called is answered.
C28_StopCompletes ==
    /\ (stopPc = "locking") ~> (stopPc = "returned" /\ scanPc["loop"] \in {"none", "exited"})
    /\ (queryPc = "locking") ~> (queryPc = "idle")

-----------------------------------------------------------------------------
(* The engine under DISCOVER, REQUEST and RELEASE packets of several MACs   *)
(* and lease expiry (Server.handleDiscover, handleRequest, handleRelease,   *)
(* IPPool.RequestIP, allocateIP, CleanupExpiredLeases).                     *)

\* The lease the first MAC holds once its DISCOVER at time 0 was served.
FirstLease ==
    [ip |-> startIP, mac |-> "aa:01", hostname |-> "h1", startTime |-> 0,
     leaseTime |-> leaseTime, isStatic |-> FALSE]

\* The engine after construction with no reservation, or after it has
\* served the DISCOVER of the first MAC at time 0; packets counts the
\* packets handled from there on.
OfferInit ==
    /\ ReloadAtRest /\ GatewayAtRest /\ OthersAtRest
    /\ config = <<>>
    /\ conflictIPs = EmptyMap
    /\ now = 0
    /\ allowAnyServerIP = FALSE
    /\ packets = 0
    /\ \/ /\ leases = EmptyMap
          /\ macToIP = EmptyMap
          /\ ret = Returned("construct", BadMAC, NilIP, "none")
          /\ history = sampleRecords
          /\ packet = NoPacket
          /\ response = NoResponse
       \/ /\ leases = MapPut(EmptyMap, startIP, FirstLease)
          /\ macToIP = MapPut(EmptyMap, "aa:01", startIP)
          /\ ret = Returned("request", "aa:01", startIP, "new")
          /\ history = addHistory(sampleRecords,
                           HistoryRecord(startIP, "aa:01", "h1", "DISCOVER"))
          /\ packet = Packet("DISCOVER", "aa:01", NilIP, UnspecifiedIP, NilServerIP)
          /\ response = [type |-> "OFFER", ip |-> startIP]

OfferNext ==
    \/ \E m \in MACs, ip \in {NilIP} \cup PacketIPs, h \in Hostnames :
          handleDiscover(m, ip, h)
    \/ \E m \in MACs, ips \in RequestIPs, sid \in ServerIPs, h \in Hostnames :
          handleRequest(m, ips[1], ips[2], sid, h)
    \/ \E m \in MACs, c \in {startIP}, h \in Hostnames : handleRelease(m, c, h)
    \/ CleanupExpiredLeases /\ PoolTask
    \/ Tick /\ PoolTask

OfferSpec == OfferInit /\ [][OfferNext]_vars

-----------------------------------------------------------------------------
(* Properties of offers and acknowledgements *)

\* The pool holds an unexpired lease on the address for another MAC.
LeasedToOther(ls, ip, mac, t) ==
    /\ ip \in DOMAIN ls
    /\ ls[ip].mac # mac
    /\ ~IsExpired(ls[ip], t)

\* C29: in every interleaving of DISCOVER, REQUEST and RELEASE packets of
\* several MACs and of lease expiry, an OFFER or ACK never names an address
\* on which the pool holds an unexpired lease of another MAC, and the lease
\* RequestIP returns for a MAC is a lease of that MAC.
C29_OfferOnlyOwnLease ==
    [][/\ (/\ packets' = packets + 1
           /\ response'.type \in {"OFFER", "ACK"})
          => ~LeasedToOther(leases', response'.ip, packet'.mac, now')
       /\ (/\ packets' = packets + 1
           /\ packet'.type = "DISCOVER"
           /\ ret'.ok)
          => /\ ret'.ip \in DOMAIN leases'
             /\ leases'[ret'.ip].mac = ret'.mac]_vars

-----------------------------------------------------------------------------
(* The packet handlers step by step (Server.handleDiscover, handleRequest,  *)
(* handleRelease, handleDecline). A handler runs in the goroutine of the    *)
(* DHCP listener; the routes of the API read the pool and the history from  *)
(* other goroutines, so every state between two steps can be observed.      *)
(* handler.todo lists the steps the handler in flight has left, in the      *)
(* order of its code: "pool" is its call into the pool or its write to the  *)
(* lease, "history" its call of addHistory.                                 *)

\* The steps of a handler in the order of its statements.
stepsOf(type) ==
    CASE type = "DISCOVER" -> <<"pool", "history">>
      [] type = "REQUEST" -> <<"pool", "history">>
      [] type = "RELEASE" -> <<"history", "pool">>
      [] type = "DECLINE" -> <<"history">>

\* A step of a handler.
StepOnly ==
    UNCHANGED <<allowAnyServerIP, reloadVars, gatewayVars, checkerVars,
                bindingVars, configVars, scannerVars, lockVars, raceVars,
                routerVars, walkVars, sweepVars, engineVars>>

\* handleDHCPPacket dispatches a packet to its handler.
receive(p) ==
    /\ Built
    /\ handler.todo = <<>>
    /\ packets < MaxPackets
    /\ packets' = packets + 1
    /\ packet' = p
    /\ response' = NoResponse
    /\ handler' = [todo |-> stepsOf(p.type), ip |-> NilIP]
    /\ UNCHANGED <<poolVars, history>>
    /\ StepOnly

\* The reply the handler sends once its last step is done.
replyOf(type, ip) ==
    CASE type = "DISCOVER" -> [type |-> "OFFER", ip |-> ip]
      [] type = "REQUEST" -> [type |-> "ACK", ip |-> ip]
      [] OTHER -> NoResponse

\* The handler's step into the pool: RequestIP for a DISCOVER, GetLease and
\* the refresh of the lease for a REQUEST, ReleaseIP for a RELEASE. A
\* handler that returns early leaves the steps it had left undone.
poolStep ==
    /\ handler.todo # <<>>
    /\ Head(handler.todo) = "pool"
    /\ UNCHANGED <<packet, packets, history>>
    /\ StepOnly
    /\ CASE packet.type = "DISCOVER" ->
              /\ \E h \in Hostnames : RequestIP(packet.mac, packet.requestedIP, h)
              /\ response' = response
              /\ handler' = IF ret'.ok
                            THEN [todo |-> Tail(handler.todo), ip |-> ret'.ip]
                            ELSE NoHandler
         [] packet.type = "REQUEST" ->
              /\ ret' = NoRet
              /\ UNCHANGED <<config, macToIP, conflictIPs, now>>
              /\ IF packet.serverIP # NilServerIP /\ ~isOurServerIP(packet.serverIP)
                 THEN /\ response' = NoResponse
                      /\ handler' = NoHandler
                      /\ leases' = leases
                 ELSE LET ip == IF packet.requestedIP = NilIP
                                THEN packet.clientIP ELSE packet.requestedIP IN
                      IF \/ ip = NilIP
                         \/ ip = UnspecifiedIP
                         \/ ip \notin DOMAIN leases
                         \/ leases[ip].mac # packet.mac
                      THEN /\ response' = NAK
                           /\ handler' = NoHandler
                           /\ leases' = leases
                      ELSE /\ leases' = IF leases[ip].isStatic THEN leases
                                        ELSE [leases EXCEPT ![ip].startTime = now]
                           /\ response' = response
                           /\ handler' = [todo |-> Tail(handler.todo), ip |-> ip]
         [] packet.type = "RELEASE" ->
              /\ ReleaseIP(packet.mac)
              /\ response' = response
              /\ handler' = [todo |-> Tail(handler.todo), ip |-> handler.ip]

\* The address a handler writes into its history record.
recordIP ==
    CASE packet.type \in {"DISCOVER", "REQUEST"} -> handler.ip
      [] packet.type = "RELEASE" -> packet.clientIP
      [] packet.type = "DECLINE" -> packet.requestedIP

\* The handler's call of addHistory; after the last step the reply goes out.
historyStep ==
    /\ handler.todo # <<>>
    /\ Head(handler.todo) = "history"
    /\ \E h \in Hostnames :
          history' = addHistory(history,
                         HistoryRecord(recordIP, packet.mac, h, packet.type))
    /\ handler' = [handler EXCEPT !.todo = Tail(handler.todo)]
    /\ response' = IF Tail(handler.todo) = <<>>
                   THEN replyOf(packet.type, handler.ip)
                   ELSE response
    /\ UNCHANGED <<poolVars, packet, packets>>
    /\ StepOnly

StepInit ==
    /\ ReloadAtRest /\ GatewayAtRest /\ OthersAtRest
    /\ config \in ServerConfigs
    /\ leases = NewIPPool(config).leases
    /\ macToIP = NewIPPool(config).macToIP
    /\ conflictIPs = EmptyMap
    /\ now = 0
    /\ ret = Returned("construct", BadMAC, NilIP, "none")
    /\ allowAnyServerIP = FALSE
    /\ history = sampleRecords
    /\ packet = NoPacket
    /\ response = NoResponse
    /\ packets = 0

StepNext ==
    \/ \E m \in MACs, ip \in {NilIP} \cup PacketIPs :
          receive(Packet("DISCOVER", m, ip, UnspecifiedIP, NilServerIP))
    \/ \E m \in MACs, ips \in RequestIPs, sid \in ServerIPs :
          receive(Packet("REQUEST", m, ips[1], ips[2], sid))
    \/ \E m \in MACs, c \in {startIP} :
          receive(Packet("RELEASE", m, NilIP, c, NilServerIP))
    \/ \E m \in MACs, ip \in PacketIPs :
          receive(Packet("DECLINE", m, ip, UnspecifiedIP, NilServerIP))
    \/ poolStep
    \/ historyStep

StepSpec == StepInit /\ [][StepNext]_vars

-----------------------------------------------------------------------------
(* Properties of the order of a handler's steps *)

\* The steps the handler in flight has left.
Left == {handler.todo[i] : i \in DOMAIN handler.todo}

\* C30: for DISCOVER, REQUEST, RELEASE and DECLINE the history record is
\* appended after the pool mutation it describes: in no state is the record
\* of the packet in flight in the history while the handler's step into the
\* pool is still to come.
C30_HistoryAfterMutation ==
    "pool" \in Left => "history" \in Left

-----------------------------------------------------------------------------
(* Further properties of the packet handlers *)

\* The packet handled in this step was dropped by the server-identifier
\* check of handleRequest.
DroppedByServerID ==
    /\ packet'.type = "REQUEST"
    /\ packet'.serverIP # NilServerIP
    /\ ~isOurServerIP(packet'.serverIP)

\* C31: every handled DISCOVER, REQUEST, RELEASE, DECLINE or INFORM that the
\* server-identifier check does not drop pushes exactly one record into the
\* history, a record of that packet, whatever the outcome (OFFER, ACK, NAK
\* or no response).
C31_OneRecordPerPacket ==
    [][(/\ packets' = packets + 1
        /\ ~DroppedByServerID)
       => \E ip \in Addresses \cup {NilIP, UnspecifiedIP}, h \in Hostnames :
             history' = addHistory(history,
                            HistoryRecord(ip, packet'.mac, h, packet'.type))]_vars

-----------------------------------------------------------------------------
(* Reload started by the restart route of the API (APIServer.               *)
(* handleServerRestart) after the gateway routes have changed the live      *)
(* configuration. The gateway routes write api.config and start no reload;  *)
(* the restart route hands api.config as it stands to reloadConfig.         *)

\* POST /api/server/restart: answer, then start a goroutine that calls
\* reloadConfig with the live configuration.
handleServerRestart(c) ==
    /\ Built
    /\ calls[c] = NoCall
    /\ calls' = [calls EXCEPT ![c] = [pc |-> "called", cfg |-> <<>>,
                                     live |-> TRUE, deleted |-> BadMAC,
                                     result |-> "none"]]
    /\ UNCHANGED <<poolVars, history, apiConfig, restartHolder, isRestarting,
                   newLeases, newMacToIP>>
    /\ ReloadOnly

RestartNext ==
    \/ \E name \in RequestGatewayNames, isDefault, saved \in BOOLEAN :
          \E ip \in RequestGatewayIPs(name) :
              handleAddGateway(name, ip, isDefault, saved)
    \/ \E oldName, name \in RequestGatewayNames, isDefault, saved \in BOOLEAN :
          \E ip \in RequestGatewayIPs(name) :
              handleUpdateGateway(oldName, name, ip, isDefault, saved)
    \/ \E name \in RequestGatewayNames, saved \in BOOLEAN :
          handleDeleteGateway(name, saved)
    \/ \E c \in Callers : handleServerRestart(c)
    \/ \E c \in Callers : reloadConfig(c)
    \/ \E c \in Callers : reloadConfigUnblocked(c)
    \/ \E c \in Callers : migrateLeases(c)
    \/ \E c \in Callers : restartServices(c)

RestartSpec == GatewayApiInit /\ [][RestartNext]_vars

-----------------------------------------------------------------------------
(* Properties of reload on an invalid configuration *)

\* The configuration caller c's reload was given fails Config.Validate.
FailsValidation(c) ==
    \/ ~ValidGateways(gateways)
    \/ ~Validate(IF calls[c].live THEN apiConfig ELSE calls[c].cfg)

\* Caller c's reload gets past restartMutex and the isRestarting check in
\* this step.
Enters(c) ==
    /\ calls[c].pc \in {"called", "blocked"}
    /\ restartHolder = Nobody
    /\ ~isRestarting
    /\ calls'[c] # calls[c]

\* C32: reload validates the new configuration before it constructs the new
\* engine. A configuration that fails validation (zero or two default
\* gateways, for one) makes reload return an error and leaves the running
\* engine, its pool and the configuration unchanged, whichever route started
\* the reload.
C32_InvalidConfigRefused ==
    [][\A c \in Callers :
          (Enters(c) /\ FailsValidation(c))
          => (/\ calls'[c].pc = "idle"
              /\ calls'[c].result = "error"
              /\ UNCHANGED <<config, leases, macToIP, conflictIPs, history,
                             apiConfig, gateways, newLeases, newMacToIP>>)]_vars

-----------------------------------------------------------------------------
(* Reload of a live configuration that NewServer refuses. The route that    *)
(* adds a reservation (APIServer.handleAddStaticBinding) appends what the   *)
(* request names to api.config.Bindings, refusing only a MAC or IP that is  *)
(* already there, and starts a reload of the live configuration.            *)

\* POST /api/bindings, seen from reload: append the reservation to the live
\* configuration and start a goroutine that calls reloadConfig with it.
addBindingAndReload(c, binding) ==
    /\ Built
    /\ calls[c] = NoCall
    /\ Len(apiConfig) < MaxBindings
    /\ \A i \in DOMAIN apiConfig :
          apiConfig[i].mac # binding.mac /\ apiConfig[i].ip # binding.ip
    /\ apiConfig' = Append(apiConfig, binding)
    /\ calls' = [calls EXCEPT ![c] = [pc |-> "called", cfg |-> <<>>,
                                     live |-> TRUE, deleted |-> BadMAC,
                                     result |-> "none"]]
    /\ UNCHANGED <<poolVars, history, restartHolder, isRestarting, newLeases,
                   newMacToIP>>
    /\ ReloadOnly

\* The reservations the route is asked to add: one NewServer accepts and
\* one whose IP does not parse.
LiveBindings ==
    {b \in Bindings : b.mac = "aa:01" /\ b.ip \in {startIP, BadIPText}}

LiveReloadNext ==
    \/ \E c \in Callers, binding \in LiveBindings : addBindingAndReload(c, binding)
    \/ \E c \in Callers, fileConfig \in ReloadConfigs : handleConfigReload(c, fileConfig)
    \/ \E c \in Callers, i \in 1..MaxBindings : handleDeleteStaticBinding(c, i)
    \/ \E c \in Callers : reloadConfig(c)
    \/ \E c \in Callers : reloadConfigUnblocked(c)
    \/ \E c \in Callers : migrateLeases(c)
    \/ \E c \in Callers : restartServices(c)
    \/ \E m \in MACs, h \in Hostnames : handleDiscover(m, NilIP, h)

LiveReloadSpec == ReloadInit /\ [][LiveReloadNext]_vars

-----------------------------------------------------------------------------
(* Properties of a reload whose new engine cannot be built *)

\* NewServer returns an error for the configuration caller c's reload was
\* given.
NewServerFails(c) ==
    ~NewIPPool(IF calls[c].live THEN apiConfig ELSE calls[c].cfg).ok

\* C33: when constructing the new engine fails, reload returns that error
\* and swaps nothing: the running configuration and pool, the API's
\* configuration and the engine under construction are unchanged, and the
\* reloading flag is clear and the reload lock free afterwards, so that a
\* later reload is accepted.
C33_FailedBuildSwapsNothing ==
    [][\A c \in Callers :
          (Enters(c) /\ NewServerFails(c))
          => (/\ calls'[c].pc = "idle"
              /\ calls'[c].result = "error"
              /\ ~isRestarting'
              /\ restartHolder' = Nobody
              /\ UNCHANGED <<config, leases, macToIP, conflictIPs, history,
                             apiConfig, newLeases, newMacToIP>>)]_vars

\* C33's case: one caller's reload has returned the error of NewServer and
\* the reload of another caller, started later, has been accepted and is
\* migrating the leases.
C33_Witness ==
    \E c, d \in Callers :
        /\ c # d
        /\ calls[c].pc = "idle"
        /\ calls[c].result = "error"
        /\ calls[d].pc = "migrate"

-----------------------------------------------------------------------------
(* A probe round step by step (HealthChecker.checkAllGateways) next to a    *)
(* caller of IsGatewayHealthy. checkAllGateways starts one goroutine per    *)
(* gateway, each sending its result to a channel buffered for all of them,  *)
(* and a goroutine that closes the channel after the last one. It then      *)
(* takes statusLock and ranges over the channel, storing each result as it  *)
(* arrives; the range ends when the channel is closed, and the deferred     *)
(* Unlock runs when checkAllGateways returns.                               *)

\* A step of the probe round or of the caller.
LockOnly ==
    UNCHANGED <<poolVars, serverVars, reloadVars, checkerVars, bindingVars,
                configVars, scannerVars, stepVars, raceVars, routerVars,
                walkVars, sweepVars, engineVars>>

\* checkAllGateways starts the probes of all configured gateways.
roundStarts ==
    /\ round.pc = "idle"
    /\ round' = [pc |-> "launched",
                 inflight |-> {gateways[i].name : i \in DOMAIN gateways},
                 results |-> [x \in {} |-> FALSE]]
    /\ UNCHANGED <<gatewayVars, statusLock, asker>>
    /\ LockOnly

\* hc.statusLock.Lock() in checkAllGateways, right after the probes were
\* started.
roundLocks ==
    /\ round.pc = "launched"
    /\ statusLock = "free"
    /\ statusLock' = "round"
    /\ round' = [round EXCEPT !.pc = "collecting"]
    /\ UNCHANGED <<gatewayVars, asker>>
    /\ LockOnly

\* A probe ends (checkSingleGateway returns) and sends its result.
probeFinishes(name, healthy) ==
    /\ name \in round.inflight
    /\ round' = [round EXCEPT !.inflight = @ \ {name},
                              !.results = MapPut(@, name, healthy)]
    /\ UNCHANGED <<gatewayVars, statusLock, asker>>
    /\ LockOnly

\* The range over the channel receives a result and stores it.
roundStores(name) ==
    /\ round.pc = "collecting"
    /\ name \in DOMAIN round.results
    /\ status' = MapPut(status, name, round.results[name])
    /\ round' = [round EXCEPT !.results = MapDelete(@, name)]
    /\ UNCHANGED <<gateways, probed, picked, apiStatus, statusLock, asker>>
    /\ LockOnly

\* The channel is closed and drained: checkAllGateways returns and unlocks.
roundEnds ==
    /\ round.pc = "collecting"
    /\ round.inflight = {}
    /\ DOMAIN round.results = {}
    /\ round' = NoRound
    /\ statusLock' = "free"
    /\ probed' = TRUE
    /\ UNCHANGED <<gateways, status, picked, apiStatus, asker>>
    /\ LockOnly

\* A DHCP handler calls IsGatewayHealthy.
isHealthyCalled(name) ==
    /\ asker.pc = "idle"
    /\ asker' = [pc |-> "waiting", name |-> name, answer |-> "none"]
    /\ UNCHANGED <<gatewayVars, statusLock, round>>
    /\ LockOnly

\* IsGatewayHealthy: RLock, read the status, RUnlock.
isHealthyAnswers ==
    /\ asker.pc = "waiting"
    /\ statusLock = "free"
    /\ asker' = [asker EXCEPT !.pc = "idle",
                              !.answer = IF IsGatewayHealthy(status, asker.name)
                                         THEN "healthy" ELSE "unhealthy"]
    /\ UNCHANGED <<gatewayVars, statusLock, round>>
    /\ LockOnly

ProbeLockInit ==
    /\ GatewayInit
    /\ \A i \in DOMAIN gateways : gateways[i].name \in ApiGatewayNames

ProbeLockNext ==
    \/ roundStarts
    \/ roundLocks
    \/ \E name \in ApiGatewayNames, healthy \in BOOLEAN : probeFinishes(name, healthy)
    \/ \E name \in ApiGatewayNames : roundStores(name)
    \/ roundEnds
    \/ \E name \in ApiGatewayNames : isHealthyCalled(name)
    \/ isHealthyAnswers

ProbeLockSpec == ProbeLockInit /\ [][ProbeLockNext]_vars

-----------------------------------------------------------------------------
(* Properties of the status lock *)

\* C34: the status lock is never held while a probe is in flight, so a
\* query a handler issues during a probe round finds the lock free and is
\* answered from the current status without waiting for a probe.
C34_NoLockOverProbe ==
    /\ statusLock = "round" => round.inflight = {}
    /\ (asker.pc = "waiting" /\ round.inflight # {}) => statusLock = "free"

-----------------------------------------------------------------------------
(* The writes to the fields of a lease (Server.handleDiscover,              *)
(* Server.handleRequest, IPPool.RequestIP, IPPool.GetLease,                 *)
(* IPPool.CleanupExpiredLeases). RequestIP, GetLease and                    *)
(* CleanupExpiredLeases hold pool.mutex for their whole body and return a   *)
(* pointer to the lease in the table; what a handler does with the pointer  *)
(* afterwards it does without the lock. A write or a read of a field takes  *)
(* time: racers[g].pc says when goroutine g is in the middle of one.        *)
(*   "locked"   inside RequestIP or CleanupExpiredLeases, mutex held        *)
(*   "store"    handleDiscover holds the lease RequestIP returned           *)
(*   "storing"  handleDiscover is writing lease.GatewayIP                   *)
(*   "write"    handleRequest holds the lease GetLease returned             *)
(*   "writing"  handleRequest is writing lease.StartTime and GatewayIP      *)

\* A step of one of these goroutines.
RaceOnly ==
    UNCHANGED <<serverVars, reloadVars, gatewayVars, checkerVars, bindingVars,
                configVars, scannerVars, stepVars, lockVars, walkVars, sweepVars,
                engineVars, reply>>

\* The gateway IP a handler stores on a lease: that of selectGateway's
\* choice, or nothing when selectGateway returns nil.
storeGatewayIP(ip) ==
    LET gateway == GetHealthyGateway(gateways, status, "") IN
    IF gateway = NilGateway THEN leaseGatewayIP
    ELSE MapPut(leaseGatewayIP, ip, gateway.ip)

\* handleDiscover calls RequestIP, which takes pool.mutex.
discoverLocks(m) ==
    /\ Built
    /\ racers["discover"].pc = "idle"
    /\ poolMutex = "free"
    /\ poolMutex' = "discover"
    /\ racers' = [racers EXCEPT !["discover"] = [pc |-> "locked", mac |-> m, ip |-> NilIP]]
    /\ UNCHANGED <<poolVars, leaseGatewayIP>>
    /\ RaceOnly

\* RequestIP does its work, a renewal's writes to StartTime and Hostname
\* included, and returns the lease; the mutex is released.
discoverReturns ==
    /\ racers["discover"].pc = "locked"
    /\ \E h \in Hostnames : RequestIP(racers["discover"].mac, NilIP, h)
    /\ poolMutex' = "free"
    /\ racers' = [racers EXCEPT !["discover"] =
                     IF ret'.ok THEN [pc |-> "store", mac |-> @.mac, ip |-> ret'.ip]
                     ELSE NoRacer]
    /\ UNCHANGED leaseGatewayIP
    /\ RaceOnly

\* handleDiscover starts to write lease.GatewayIP.
discoverStores ==
    /\ racers["discover"].pc = "store"
    /\ racers' = [racers EXCEPT !["discover"].pc = "storing"]
    /\ UNCHANGED <<poolVars, poolMutex, leaseGatewayIP>>
    /\ RaceOnly

\* The write of lease.GatewayIP is done.
discoverStored ==
    /\ racers["discover"].pc = "storing"
    /\ leaseGatewayIP' = storeGatewayIP(racers["discover"].ip)
    /\ racers' = [racers EXCEPT !["discover"] = NoRacer]
    /\ UNCHANGED <<poolVars, poolMutex>>
    /\ RaceOnly

\* handleRequest calls GetLease (RLock, lookup, RUnlock) and goes on when
\* the lease is the client's.
requestGets(m, ip) ==
    /\ Built
    /\ racers["request"].pc = "idle"
    /\ poolMutex = "free"
    /\ racers' = [racers EXCEPT !["request"] =
                     IF ip \in DOMAIN leases /\ leases[ip].mac = m
                     THEN [pc |-> "write", mac |-> m, ip |-> ip]
                     ELSE NoRacer]
    /\ UNCHANGED <<poolVars, poolMutex, leaseGatewayIP>>
    /\ RaceOnly

\* handleRequest starts to write the fields of the lease.
requestWrites ==
    /\ racers["request"].pc = "write"
    /\ racers' = [racers EXCEPT !["request"].pc = "writing"]
    /\ UNCHANGED <<poolVars, poolMutex, leaseGatewayIP>>
    /\ RaceOnly

\* The writes are done: StartTime of a dynamic lease, and GatewayIP. The
\* lease object is written whether or not the table still holds it.
requestWritten ==
    /\ racers["request"].pc = "writing"
    /\ LET ip == racers["request"].ip IN
       /\ leases' = IF /\ ip \in DOMAIN leases
                       /\ leases[ip].mac = racers["request"].mac
                       /\ ~leases[ip].isStatic
                    THEN [leases EXCEPT ![ip].startTime = now]
                    ELSE leases
       /\ leaseGatewayIP' = storeGatewayIP(ip)
    /\ racers' = [racers EXCEPT !["request"] = NoRacer]
    /\ ret' = NoRet
    /\ UNCHANGED <<config, macToIP, conflictIPs, now, poolMutex>>
    /\ RaceOnly

\* The sweeper calls CleanupExpiredLeases, which takes pool.mutex.
sweeperLocks ==
    /\ Built
    /\ racers["sweeper"].pc = "idle"
    /\ poolMutex = "free"
    /\ poolMutex' = "sweeper"
    /\ racers' = [racers EXCEPT !["sweeper"].pc = "locked"]
    /\ UNCHANGED <<poolVars, leaseGatewayIP>>
    /\ RaceOnly

\* CleanupExpiredLeases reads StartTime of every lease (IsExpired), drops
\* the expired ones and releases the mutex.
sweeperSweeps ==
    /\ racers["sweeper"].pc = "locked"
    /\ CleanupExpiredLeases
    /\ poolMutex' = "free"
    /\ racers' = [racers EXCEPT !["sweeper"] = NoRacer]
    /\ UNCHANGED leaseGatewayIP
    /\ RaceOnly

\* Time passes.
raceTick ==
    /\ Tick
    /\ UNCHANGED <<raceVars, leaseGatewayIP>>
    /\ RaceOnly

\* The engine after construction, with one default gateway.
RaceInit ==
    /\ ServerAtRest /\ ReloadAtRest /\ OthersAtRest
    /\ config = <<>>
    /\ leases = EmptyMap
    /\ macToIP = EmptyMap
    /\ conflictIPs = EmptyMap
    /\ now = 0
    /\ ret = Returned("construct", BadMAC, NilIP, "none")
    /\ gateways = <<[name |-> "g1", ip |-> GatewayIP("g1"), isDefault |-> TRUE]>>
    /\ status = NewHealthChecker(gateways)
    /\ probed = FALSE
    /\ picked = NoPick
    /\ apiStatus = 0

RaceNext ==
    \/ \E m \in MACs : discoverLocks(m)
    \/ discoverReturns
    \/ discoverStores
    \/ discoverStored
    \/ \E m \in MACs, ip \in PacketIPs : requestGets(m, ip)
    \/ requestWrites
    \/ requestWritten
    \/ sweeperLocks
    \/ sweeperSweeps
    \/ raceTick

RaceSpec == RaceInit /\ [][RaceNext]_vars

-----------------------------------------------------------------------------
(* Properties of the writes to lease fields *)

\* Goroutine g is in the middle of a write to a field of a lease.
Writing(g) ==
    \/ g = "discover" /\ racers[g].pc \in {"locked", "storing"}
    \/ g = "request" /\ racers[g].pc = "writing"

\* Goroutine g is inside a pool operation that reads lease fields.
Reading(g) == racers[g].pc = "locked"

\* C35: every write to a field of a lease held in the pool happens while
\* the writer holds the pool's exclusive lock, so no handler writes a lease
\* field while a pool operation of another goroutine can read it.
C35_LeaseWritesUnderLock ==
    \A g \in Racers :
        Writing(g) =>
            /\ poolMutex = g
            /\ \A other \in Racers \ {g} : ~Reading(other)

-----------------------------------------------------------------------------
(* The gateway a DISCOVER is answered with (Server.handleDiscover,          *)
(* createResponse, addNetworkOptions) next to the probe rounds of the       *)
(* health checker. handleDiscover calls selectGateway and stores the        *)
(* choice's address in lease.GatewayIP; createResponse then calls           *)
(* addNetworkOptions, which calls selectGateway once more for the router    *)
(* option. The lease of a DISCOVER is dynamic, so both calls ask for the    *)
(* default gateway (preferred name "").                                     *)

\* A step of the handler.
ReplyOnly ==
    UNCHANGED <<allowAnyServerIP, reloadVars, gateways, status, probed, picked,
                apiStatus, checkerVars, bindingVars, configVars, scannerVars,
                stepVars, lockVars, raceVars, walkVars, sweepVars, engineVars>>

\* handleDiscover up to the lease: RequestIP.
replyStarts(m) ==
    /\ reply.pc \in {"idle", "built"}
    /\ packets < MaxPackets
    /\ packets' = packets + 1
    /\ packet' = Packet("DISCOVER", m, NilIP, UnspecifiedIP, NilServerIP)
    /\ \E h \in Hostnames : RequestIP(m, NilIP, h)
    /\ reply' = IF ret'.ok
                THEN [pc |-> "lease", mac |-> m, ip |-> ret'.ip, router |-> NilIP]
                ELSE NoReply
    /\ response' = NoResponse
    /\ UNCHANGED <<history, leaseGatewayIP>>
    /\ ReplyOnly

\* handleDiscover: selectGateway, lease.GatewayIP = gateway.IP, addHistory.
replyStoresGateway ==
    /\ reply.pc = "lease"
    /\ leaseGatewayIP' = storeGatewayIP(reply.ip)
    /\ \E h \in Hostnames :
          history' = addHistory(history,
                         HistoryRecord(reply.ip, reply.mac, h, "DISCOVER"))
    /\ reply' = [reply EXCEPT !.pc = "stored"]
    /\ UNCHANGED <<poolVars, response, packet, packets>>
    /\ ReplyOnly

\* createResponse and addNetworkOptions: selectGateway again; the router
\* option is that choice's address, and absent when the choice is nil.
replyBuilds ==
    /\ reply.pc = "stored"
    /\ reply' = [reply EXCEPT !.pc = "built",
                              !.router = GetHealthyGateway(gateways, status, "").ip]
    /\ response' = [type |-> "OFFER", ip |-> reply.ip]
    /\ UNCHANGED <<poolVars, history, leaseGatewayIP, packet, packets>>
    /\ ReplyOnly

RouterInit ==
    /\ GatewayInit
    /\ \A i \in DOMAIN gateways : gateways[i].name \in ApiGatewayNames
    /\ ValidGateways(gateways)

RouterNext ==
    \/ \E m \in MACs : replyStarts(m)
    \/ replyStoresGateway
    \/ replyBuilds
    \/ checkAllGateways /\ UNCHANGED checkerVars

RouterSpec == RouterInit /\ [][RouterNext]_vars

-----------------------------------------------------------------------------
(* Properties of the answered gateway *)

\* C36: the gateway_ip stored on the lease while a DISCOVER is handled is
\* the router option of the response built for that packet, also when a
\* probe round changes the health status while the packet is handled.
C36_StoredGatewayIsRouter ==
    reply.pc = "built"
        => /\ reply.ip \in DOMAIN leaseGatewayIP
           /\ leaseGatewayIP[reply.ip] = reply.router

-----------------------------------------------------------------------------
(* The linear scan of the range (IPPool.findAvailableIP and                 *)
(* IPPool.GetAvailableIPs): for i := start; i <= end; i++ over the          *)
(* addresses as unsigned integers of fixed width. The model keeps the       *)
(* arithmetic and narrows the width: the largest address is 2^Width - 1,    *)
(* as 255.255.255.255 is 2^32 - 1.                                          *)

\* The width of the scan counter in bits (uint32 in the code), the number
\* of values it has and its largest value.
Width == 2
CounterValues == 2 ^ Width
MaxCounter == CounterValues - 1

\* The number of addresses of the range of a scan.
RangeSize(w) == w.end - w.start + 1

\* The state of a scan at its first iteration.
NewWalk(mode, start, end, free) ==
    [mode |-> mode, start |-> start, end |-> end, free |-> free, i |-> start,
     n |-> 0, out |-> <<>>, done |-> FALSE]

\* The scans to check: the mode, a range with start <= end, and the set of
\* addresses for which isIPAvailable answers true.
Walks ==
    {NewWalk(mode, r[1], r[2], free) :
        mode \in {"find", "list"},
        r \in {q \in (0..MaxCounter) \X (0..MaxCounter) : q[1] <= q[2]},
        free \in SUBSET (0..MaxCounter)}

\* A step of the scan.
WalkOnly ==
    UNCHANGED <<poolVars, serverVars, reloadVars, gatewayVars, checkerVars,
                bindingVars, configVars, scannerVars, stepVars, lockVars,
                raceVars, routerVars, sweepVars, engineVars>>

\* The loop condition fails: the scan is over.
walkEnds ==
    /\ ~walk.done
    /\ walk.i > walk.end
    /\ walk' = [walk EXCEPT !.done = TRUE]
    /\ WalkOnly

\* One iteration: test isIPAvailable for address i; findAvailableIP returns
\* the first hit, GetAvailableIPs appends every hit; then i++ in the width
\* of the counter. The model stops a scan that has run one iteration more
\* than the range has addresses.
walkStep ==
    /\ ~walk.done
    /\ walk.i <= walk.end
    /\ walk.n <= RangeSize(walk)
    /\ walk' = IF walk.i \in walk.free /\ walk.mode = "find"
               THEN [walk EXCEPT !.n = @ + 1, !.out = <<walk.i>>, !.done = TRUE]
               ELSE [walk EXCEPT !.n = @ + 1,
                                 !.out = IF walk.i \in walk.free
                                         THEN Append(@, walk.i) ELSE @,
                                 !.i = (@ + 1) % CounterValues]
    /\ WalkOnly

WalkInit ==
    /\ ServerAtRest /\ ReloadAtRest /\ GatewayAtRest /\ OthersAtRest
    /\ config = <<>>
    /\ leases = EmptyMap
    /\ macToIP = EmptyMap
    /\ conflictIPs = EmptyMap
    /\ now = 0
    /\ ret = NoRet

\* A caller starts a scan once the last one has returned.
walkStarts ==
    /\ walk.done
    /\ walk' \in Walks
    /\ WalkOnly

WalkNext ==
    \/ walkStarts
    \/ walkStep
    \/ walkEnds

WalkSpec == WalkInit /\ [][WalkNext]_vars

-----------------------------------------------------------------------------
(* Properties of the linear scan *)

\* The addresses a scan has yielded.
Yielded == {walk.out[k] : k \in DOMAIN walk.out}

\* C37: for every range with start <= end, up to the largest address where
\* the scan counter is at its maximum, the scan ends after at most
\* range-size iterations, yields only addresses of the range, and yields no
\* address exactly when no address of the range is available.
C37_ScanTerminatesInRange ==
    walk.mode # "none" =>
        /\ walk.n <= RangeSize(walk)
        /\ Yielded \subseteq walk.start..walk.end
        /\ walk.done =>
              (Yielded = {} <=> walk.free \cap (walk.start..walk.end) = {})

-----------------------------------------------------------------------------
(* The cleanup seen from outside: the pool operations of Spec, with the     *)
(* pool and the clock a cleanup found kept beside the pool it left, until   *)
(* the next operation.                                                       *)

SweepOnly ==
    UNCHANGED <<serverVars, reloadVars, gatewayVars, checkerVars, bindingVars,
                configVars, scannerVars, stepVars, lockVars, raceVars,
                routerVars, walkVars, engineVars>>

\* An operation other than the cleanup.
otherCall ==
    /\ swept' = NoSweep
    /\ SweepOnly

\* The hourly sweeper or GetAvailableIPs calls CleanupExpiredLeases.
sweep ==
    /\ CleanupExpiredLeases
    /\ swept' = [ran |-> TRUE, leases |-> leases, macToIP |-> macToIP,
                 conflictIPs |-> conflictIPs, now |-> now]
    /\ SweepOnly

SweepNext ==
    \/ \E m \in MACTexts, ip \in {NilIP, UnspecifiedIP} \cup Addresses,
          h \in Hostnames : RequestIP(m, ip, h) /\ otherCall
    \/ \E m \in MACTexts : ReleaseIP(m) /\ otherCall
    \/ \E m \in MACTexts : RemoveAllLeasesByMAC(m) /\ otherCall
    \/ \E ip \in ConflictInputs : MarkIPAsConflict(ip) /\ otherCall
    \/ sweep
    \/ Tick /\ otherCall

\* A pool built from a configuration with at most one reservation.
SweepInit ==
    /\ Init
    /\ Len(config) <= 1

SweepSpec == SweepInit /\ [][SweepNext]_vars

-----------------------------------------------------------------------------
(* Properties of the cleanup *)

\* The expired dynamic leases of the pool a cleanup found.
sweptExpired ==
    {ip \in DOMAIN swept.leases :
        ~swept.leases[ip].isStatic /\ IsExpired(swept.leases[ip], swept.now)}

\* Their index entries: a MAC whose entry names an expired dynamic lease of
\* that MAC.
sweptExpiredMACs ==
    {m \in DOMAIN swept.macToIP :
        /\ swept.macToIP[m] \in sweptExpired
        /\ swept.leases[swept.macToIP[m]].mac = m}

\* The conflict entries older than one hour.
sweptOldConflicts ==
    {ip \in DOMAIN swept.conflictIPs :
        swept.conflictIPs[ip] < swept.now - ConflictTTL}

-----------------------------------------------------------------------------
(* The engines of the process (main.go main, reloadConfig, restartServices; *)
(* Server.Start, Server.Stop; HealthChecker.Start; IPPool.StartCleanupTask).*)
(* main and every reload launch Start of an engine in a goroutine of its    *)
(* own; Stop is called by the next reload or by the shutdown, whenever      *)
(* that comes. Where the goroutine running Start stands (pc):               *)
(*   "none"     not launched                                                *)
(*   "called"   launched, nothing done yet                                  *)
(*   "tasks"    the health loop and the sweeper are launched                *)
(*   "bound"    server4.NewServer has opened the listener                   *)
(*   "serving"  s.server is set and Serve reads packets                     *)
(*   "returned" Serve or NewServer has returned                             *)
(* The health loop (hc): "none", "first" (the immediate round), "loop",     *)
(* "returned". The sweeper: "none" or "loop".                               *)

EngineOnly ==
    UNCHANGED <<poolVars, allowAnyServerIP, history, packet, response,
                reloadVars, gatewayVars, checkerVars, bindingVars, configVars,
                scannerVars, stepVars, lockVars, raceVars, routerVars, walkVars,
                sweepVars>>

\* Server.Stop: cancel the context of the health checker, and close the
\* listener if s.server is set.
ServerStop(e) ==
    [e EXCEPT !.cancelled = TRUE,
              !.stopped = TRUE,
              !.listener = IF e.server THEN FALSE ELSE @]

\* The engines constructed so far.
Made == {e \in Engines : engines[e].pc # "none"}

\* reloadConfig with a configuration NewServer accepts: construct the next
\* engine, make it globalServer, and restartServices: Stop the old engine,
\* sleep, and launch Start of the new one in a goroutine.
reload ==
    /\ globalServer # 0
    /\ Made # Engines
    /\ LET new == CHOOSE e \in Engines \ Made : \A f \in Engines \ Made : e <= f
       IN /\ engines' = [engines EXCEPT
                            ![globalServer] = ServerStop(@),
                            ![new] = [NoEngine EXCEPT !.pc = "called"]]
          /\ globalServer' = new
    /\ UNCHANGED <<handledBy, packets>>
    /\ EngineOnly

\* Start, first part: go s.healthChecker.Start() and s.pool.StartCleanupTask().
startTasks(e) ==
    /\ engines[e].pc = "called"
    /\ engines' = [engines EXCEPT ![e].pc = "tasks", ![e].hc = "first",
                                  ![e].sweeper = "loop"]
    /\ UNCHANGED <<globalServer, handledBy, packets>>
    /\ EngineOnly

\* Start, second part: server4.NewServer opens the listener, or fails and
\* Start returns the error.
newServer(e, ok) ==
    /\ engines[e].pc = "tasks"
    /\ engines' = [engines EXCEPT ![e].pc = IF ok THEN "bound" ELSE "returned",
                                  ![e].listener = ok]
    /\ UNCHANGED <<globalServer, handledBy, packets>>
    /\ EngineOnly

\* Start, third part: s.server = server, then server.Serve().
serve(e) ==
    /\ engines[e].pc = "bound"
    /\ engines' = [engines EXCEPT ![e].pc = "serving", ![e].server = TRUE]
    /\ UNCHANGED <<globalServer, handledBy, packets>>
    /\ EngineOnly

\* Serve reads a packet from the open listener and calls handleDHCPPacket.
handleDHCPPacket(e) ==
    /\ engines[e].pc = "serving"
    /\ engines[e].listener
    /\ packets < MaxPackets
    /\ packets' = packets + 1
    /\ handledBy' = e
    /\ UNCHANGED <<engines, globalServer>>
    /\ EngineOnly

\* Serve returns once the listener is closed.
serveReturns(e) ==
    /\ engines[e].pc = "serving"
    /\ ~engines[e].listener
    /\ engines' = [engines EXCEPT ![e].pc = "returned"]
    /\ UNCHANGED <<globalServer, handledBy, packets>>
    /\ EngineOnly

\* HealthChecker.Start: the immediate round, then the loop.
healthFirstRound(e) ==
    /\ engines[e].hc = "first"
    /\ engines' = [engines EXCEPT ![e].hc = "loop"]
    /\ UNCHANGED <<globalServer, handledBy, packets>>
    /\ EngineOnly

\* The loop takes <-hc.ctx.Done() and returns.
healthReturns(e) ==
    /\ engines[e].hc = "loop"
    /\ engines[e].cancelled
    /\ engines' = [engines EXCEPT ![e].hc = "returned"]
    /\ UNCHANGED <<globalServer, handledBy, packets>>
    /\ EngineOnly

\* The goroutine of StartCleanupTask runs `for range ticker.C` on a ticker
\* nothing stops: it has no step that leaves "loop".

\* main on SIGINT or SIGTERM: Stop of globalServer, then the process exits
\* and every goroutine with it.
shutdown ==
    /\ globalServer # 0
    /\ engines' = [e \in Engines |->
                      IF engines[e].pc = "none" THEN engines[e]
                      ELSE [ServerStop(engines[e]) EXCEPT
                               !.pc = "returned", !.hc = "returned",
                               !.sweeper = "returned", !.listener = FALSE]]
    /\ globalServer' = 0
    /\ UNCHANGED <<handledBy, packets>>
    /\ EngineOnly

\* main: the first engine is globalServer and its Start is launched.
EngineInit ==
    /\ ServerAtRest /\ ReloadAtRest /\ GatewayAtRest
    /\ CheckerAtRest /\ BindingAtRest /\ ConfigAtRest /\ ScannerAtRest
    /\ StepAtRest /\ LockAtRest /\ RaceAtRest /\ RouterAtRest /\ WalkAtRest
    /\ SweepAtRest
    /\ config = <<>>
    /\ leases = EmptyMap
    /\ macToIP = EmptyMap
    /\ conflictIPs = EmptyMap
    /\ now = 0
    /\ ret = NoRet
    /\ engines = [e \in Engines |->
                     IF e = 1 THEN [NoEngine EXCEPT !.pc = "called"] ELSE NoEngine]
    /\ globalServer = 1
    /\ handledBy = 0

EngineStep(e) ==
    \/ startTasks(e)
    \/ \E ok \in BOOLEAN : newServer(e, ok)
    \/ serve(e)
    \/ serveReturns(e)
    \/ healthFirstRound(e)
    \/ healthReturns(e)

EngineNext ==
    \/ reload
    \/ shutdown
    \/ \E e \in Engines : EngineStep(e)
    \/ \E e \in Engines : handleDHCPPacket(e)

EngineSpec == EngineInit /\ [][EngineNext]_vars

\* Every goroutine that can take a step takes it in the end.
EngineFairSpec ==
    /\ EngineSpec
    /\ \A e \in Engines : WF_vars(EngineStep(e))

-----------------------------------------------------------------------------
(* Properties of the engines *)

\* A background task of the engine is running.
TaskRunning(e) ==
    \/ engines[e].hc \in {"first", "loop"}
    \/ engines[e].sweeper = "loop"

\* C39: after an engine is stopped, by a reload or by the shutdown, its
\* health-check loop and its cleanup sweeper terminate in the end, so that
\* only the tasks of the current engine keep running.
C39_StoppedTasksEnd ==
    \A e \in Engines : engines[e].stopped ~> ~TaskRunning(e)

\* C40: once Stop has been called on an engine, the engine neither opens
\* the listener nor handles a packet, also when Stop came before Start had
\* created the listener; so at most one engine has the listener open.
C40_StoppedEngineStaysClosed ==
    [][/\ \A e \in Engines :
              engines[e].stopped /\ ~engines[e].listener => ~engines'[e].listener
       /\ packets' # packets => ~engines[handledBy'].stopped]_vars

====
